---- MODULE Spec2Model ----
(***************************************************************************)
(* Model of the Softlight browser agent: the run of main() in src/main.py  *)
(* (task parsing, navigation, login check, the Stepping loop) and the      *)
(* sliding-window RateLimiter of src/utils/rate_limiter.py.                *)
(*                                                                         *)
(* Texts are sequences of one-character strings so that cleaning,         *)
(* lower-casing and substring tests are computed, not assumed.             *)
(***************************************************************************)
EXTENDS Integers, Sequences, FiniteSets, TLC

(***************************************************************************)
(* Program constants and model bounds                                      *)
(***************************************************************************)
\* src/main.py:600
max_steps == 20

\* bound on the iterations explored by the model (the loop guard uses the
\* smaller of max_steps and MaxSteps)
MaxSteps == 3

StepBudget == IF MaxSteps < max_steps THEN MaxSteps ELSE max_steps

\* src/main.py:1033 (action_history[-5:]) and src/main.py:1034 (>= 2)
LoopWindow == 5
LoopThreshold == 2

\* Python's None for an optional number
None == -1

(***************************************************************************)
(* Text helpers                                                            *)
(***************************************************************************)
UpperChars == {"A", "B", "C", "N", "P", "S", "T"}
LowerChars ==
    {"a", "b", "c", "e", "i", "j", "k", "l", "m", "n", "o", "p", "r", "s", "t",
     "v"}
DigitChars == {"1"}
SpaceChars == {" ", "\t", "\n"}

\* str.lower() on one character
LowerChar(c) ==
    CASE c = "A" -> "a"
      [] c = "B" -> "b"
      [] c = "C" -> "c"
      [] c = "N" -> "n"
      [] c = "P" -> "p"
      [] c = "S" -> "s"
      [] c = "T" -> "t"
      [] OTHER -> c

\* str.lower()
Lower(s) == [i \in 1..Len(s) |-> LowerChar(s[i])]

RECURSIVE Filter(_, _)
Filter(s, keep) ==
    IF s = <<>> THEN <<>>
    ELSE IF s[1] \in keep THEN <<s[1]>> \o Filter(Tail(s), keep)
         ELSE Filter(Tail(s), keep)

\* re.sub(r'[^a-zA-Z0-9\s]', '', text)
RemoveSpecial(s) ==
    Filter(s, UpperChars \cup LowerChars \cup DigitChars \cup SpaceChars)

\* re.sub(r'\s+', ' ', text)
RECURSIVE CollapseSpaces(_)
CollapseSpaces(s) ==
    IF s = <<>> THEN <<>>
    ELSE IF s[1] \in SpaceChars
         THEN IF Len(s) > 1 /\ s[2] \in SpaceChars
              THEN CollapseSpaces(Tail(s))
              ELSE <<" ">> \o CollapseSpaces(Tail(s))
         ELSE <<s[1]>> \o CollapseSpaces(Tail(s))

RECURSIVE LStrip(_)
LStrip(s) ==
    IF s # <<>> /\ s[1] \in SpaceChars THEN LStrip(Tail(s)) ELSE s

RECURSIVE RStrip(_)
RStrip(s) ==
    IF s # <<>> /\ s[Len(s)] \in SpaceChars
    THEN RStrip(SubSeq(s, 1, Len(s) - 1))
    ELSE s

\* str.strip()
Strip(s) == RStrip(LStrip(s))

CleanText_StripOnly(raw) == Strip(raw)

\* src/main.py:1013-1018: strip, remove special characters, collapse
\* whitespace, strip
CleanText(raw) == Strip(CollapseSpaces(RemoveSpecial(Strip(raw))))

\* Python's  sub in s
Contains(sub, s) ==
    \E i \in 0..(Len(s) - Len(sub)) : SubSeq(s, i + 1, i + Len(sub)) = sub

W_click == <<"c", "l", "i", "c", "k">>
W_select == <<"s", "e", "l", "e", "c", "t">>
W_goal_completed ==
    <<"g", "o", "a", "l", "_", "c", "o", "m", "p", "l", "e", "t", "e", "d">>
W_true == <<"t", "r", "u", "e">>

T_Save == <<"S", "a", "v", "e">>
T_Title == <<"T", "i", "t", "l", "e">>
T_SaveRaw == <<" ", "S", "a", "v", "e", "!">>
T_Punct == <<"+">>


\* free-text replies of the oracle that are not JSON
P_Error == <<"e", "r", "r", "o", "r">>
P_Done == W_goal_completed \o <<" ">> \o W_true
ProseTexts == {P_Error, P_Done}

\* reasoning texts of the goal verifier
R_Empty == <<>>
R_Click == <<"c", "l", "i", "c", "k", " ", "i", "t">>
R_Select == <<"S", "e", "l", "e", "c", "t">>
ReasoningTexts == {R_Empty, P_Error, R_Click, R_Select}

\* str.lower() on the event names the oracle may emit
LowerEvent(e) ==
    CASE e = "CLICK" -> "click"
      [] e = "Fill" -> "fill"
      [] OTHER -> e

\* the (event, text) pairs the oracle may put in an action reply
RawIntents ==
    {<<"click", T_Save>>, <<"CLICK", T_SaveRaw>>, <<"click", T_Title>>,
     <<"Fill", T_Title>>, <<"done", T_Save>>, <<"", T_Save>>,
     <<"click", T_Punct>>}

\* digests of the screenshots a page can produce
Shots == {1, 2}


Str(s) == [isstr |-> TRUE, s |-> s]
NonStr == [isstr |-> FALSE, s |-> <<>>]

(***************************************************************************)
(* State                                                                   *)
(***************************************************************************)
VARIABLES
    pc,                          \* position of main()
    api_trace,                   \* API operations of the latest oracle request
    retries,                     \* manual_login_handoff: retries
    step_count,                  \* main: step_count
    goal_reached,                \* main: goal_reached
    limit_reported,              \* main: the while-else branch ran
    dom_snapshot_before,         \* main: dom_snapshot_before
    page_gen,                    \* number of actions executed on the page
    action_history,              \* main: action_history
    previous_screenshot_path,    \* main: digest of the previous screenshot
    shot,                        \* main: digest of this step's screenshot
    last_llm_suggestion,         \* main: last_llm_suggestion
    reuse_previous_instruction,  \* main: reuse_previous_instruction
    duplicate_screenshot,        \* main: duplicate_screenshot
    goal_check,                  \* main: goal_check
    event,                       \* main: event
    text,                        \* main: text
    iter_query,                  \* an action query was issued in this iteration
    iter_exec,                   \* the executor called in this iteration
    iter_hist0,                  \* Len(action_history) when the iteration began
    iter_failure,                \* the failure the executor met in this iteration
    issued,                      \* the intent issued in each iteration so far
    outcome,                     \* how this iteration went so far
    prev_outcome,                \* how the previous iteration ended
    max_calls, time_window,      \* RateLimiter configuration
    clock,                       \* time.time(), in half seconds
    call_times,                  \* RateLimiter.call_times
    admitted,                    \* every timestamp ever recorded
    last_sleep,                  \* duration of the last time.sleep()
    nav_url,                     \* ensure_navigate: url
    nav_log,                     \* ensure_navigate: the navigate() calls made
    nav_prompted,                \* ensure_navigate: the manual prompt was shown
    nav_cur_url,                 \* ensure_navigate: cur_url
    nav_result,                  \* ensure_navigate: the value returned
    nav_failed,                  \* main: ensure_navigate returned False
    logged_in_indicators,        \* main: logged_in_indicators
    login_required_indicators,   \* main: login_required_indicators
    login_response,              \* main: the oracle's reply to the login check
    needs_login,                 \* main: needs_login
    context_listed,              \* main: indices of the records in context_str
    context_mentioned,           \* main: indices of the records the prompt names
    context_summarized,          \* main: the short form of context_str was used
    current_check,               \* main: digest of the click verification screenshot
    new_count,                   \* main: new_count after a click
    arg,                         \* argument of the function being applied
    ret                          \* its result

loopVars ==
    <<step_count, goal_reached, limit_reported, dom_snapshot_before, page_gen,
      action_history, previous_screenshot_path, shot, last_llm_suggestion,
      reuse_previous_instruction, duplicate_screenshot, goal_check, event,
      text>>

iterVars ==
    <<iter_query, iter_exec, iter_hist0, iter_failure, issued, outcome,
      prev_outcome>>

rlVars == <<max_calls, time_window, clock, call_times, admitted, last_sleep>>

navVars == <<nav_url, nav_log, nav_prompted, nav_cur_url, nav_result>>

loginVars ==
    <<logged_in_indicators, login_required_indicators, login_response,
      needs_login>>

ctxVars == <<context_listed, context_mentioned, context_summarized>>

\* the variables the Stepping loop never writes
setupVars == <<navVars, nav_failed, loginVars, ctxVars>>

\* the click verification of src/main.py:1087-1112
verifyVars == <<current_check, new_count>>

\* argument and result of a function applied on its own
fnVars == <<arg, ret>>

vars ==
    <<pc, api_trace, retries, loopVars, iterVars, rlVars, setupVars,
      verifyVars, fnVars>>

(***************************************************************************)
(* Oracle requests                                                         *)
(***************************************************************************)
\* StateDetector.analyze_screenshot: wait_if_needed, then generate_content
AnalyzeScreenshotOps == <<"wait_if_needed", "generate_content">>

\* TaskParser.parse: generate_content
TaskParserOps == <<"generate_content">>

\* Python's None for last_llm_suggestion
NoSuggestion == [present |-> FALSE, event |-> "", text |-> <<>>]

Suggestion(e, t) == [present |-> TRUE, event |-> e, text |-> t]

NoGoalCheck == [kind |-> "none", goal_completed |-> FALSE, reasoning |-> Str(<<>>)]

\* src/agent/state_detector.py:39: RateLimiter(max_calls=15, time_window=60)
DetectorMaxCalls == 15
DetectorTimeWindow == 60

\* what main() holds of navigation, login check and prompt context before any
\* of them ran
SetupInit ==
    /\ nav_url = <<>>
    /\ nav_log = <<>>
    /\ nav_prompted = FALSE
    /\ nav_cur_url = <<>>
    /\ nav_result = "none"
    /\ nav_failed = FALSE
    /\ logged_in_indicators = {}
    /\ login_required_indicators = {}
    /\ login_response = "none"
    /\ needs_login = FALSE
    /\ context_listed = {}
    /\ context_mentioned = {}
    /\ context_summarized = FALSE
    /\ current_check = None
    /\ new_count = None

\* no function is being applied on its own
FnInit ==
    /\ arg = <<>>
    /\ ret = <<>>

RLInit ==
    /\ max_calls = DetectorMaxCalls
    /\ time_window = DetectorTimeWindow
    /\ clock = 0
    /\ call_times = <<>>
    /\ admitted = <<>>
    /\ last_sleep = 0

Init ==
    /\ pc = "parse_task"
    /\ api_trace = <<>>
    /\ retries = 0
    /\ step_count = 0
    /\ goal_reached = FALSE
    /\ limit_reported = FALSE
    /\ dom_snapshot_before = None
    /\ page_gen = 0
    /\ action_history = <<>>
    /\ previous_screenshot_path = None
    /\ shot = None
    /\ last_llm_suggestion = NoSuggestion
    /\ reuse_previous_instruction = FALSE
    /\ duplicate_screenshot = FALSE
    /\ goal_check = NoGoalCheck
    /\ event = ""
    /\ text = <<>>
    /\ iter_query = FALSE
    /\ iter_exec = "none"
    /\ iter_hist0 = 0
    /\ iter_failure = "none"
    /\ issued = <<>>
    /\ outcome = "none"
    /\ prev_outcome = "none"
    /\ RLInit
    /\ SetupInit
    /\ FnInit

\* main() has not started: every variable of the run has its initial value
IdleInit ==
    /\ api_trace = <<>>
    /\ retries = 0
    /\ step_count = 0
    /\ goal_reached = FALSE
    /\ limit_reported = FALSE
    /\ dom_snapshot_before = None
    /\ page_gen = 0
    /\ action_history = <<>>
    /\ previous_screenshot_path = None
    /\ shot = None
    /\ last_llm_suggestion = NoSuggestion
    /\ reuse_previous_instruction = FALSE
    /\ duplicate_screenshot = FALSE
    /\ goal_check = NoGoalCheck
    /\ event = ""
    /\ text = <<>>
    /\ iter_query = FALSE
    /\ iter_exec = "none"
    /\ iter_hist0 = 0
    /\ iter_failure = "none"
    /\ issued = <<>>
    /\ outcome = "none"
    /\ prev_outcome = "none"
    /\ RLInit
    /\ SetupInit

(***************************************************************************)
(* main(): task parsing, navigation, login check                           *)
(***************************************************************************)
\* src/main.py:348-349, src/agent/task_parser.py:67-90
ParseTask ==
    /\ pc = "parse_task"
    /\ api_trace' = TaskParserOps
    /\ \E ok \in BOOLEAN :
          pc' = IF ok THEN "navigate" ELSE "crashed"
    /\ UNCHANGED <<retries, loopVars, iterVars, rlVars, verifyVars, fnVars, setupVars>>

\* URLs are sequences of tokens;  tok in url  is a test on the tokens
U_Generic == <<"https://", "example.com">>
U_Linear == <<"https://", "linear.app", "/team">>
U_Notion == <<"https://www.", "notion.so", "/page">>
U_Both == <<"https://www.", "notion.so", "/?ref=", "linear.app">>
U_Blank == <<"about:blank">>

\* the values parsed["app_url"] may take
AppUrls == {U_Generic, U_Linear, U_Notion, U_Both}

\* Python's  tok in url
InUrl(tok, url) == \E i \in 1..Len(url) : url[i] = tok

Attempts_LongestFirst ==
    <<[wait_until |-> "networkidle", timeout |-> 60000],
      [wait_until |-> "load", timeout |-> 45000],
      [wait_until |-> "domcontentloaded", timeout |-> 30000]>>

\* src/main.py:120-124: attempts
Attempts ==
    <<[wait_until |-> "domcontentloaded", timeout |-> 30000],
      [wait_until |-> "load", timeout |-> 45000],
      [wait_until |-> "networkidle", timeout |-> 60000]>>

\* src/main.py:132-136: alt_urls
AltUrls(url) ==
    IF InUrl("linear.app", url)
    THEN <<<<"https://", "linear.app">>, <<"https://", "linear.app", "/login">>,
           <<"https://", "linear.app", "/launch">>>>
    ELSE IF InUrl("notion.so", url)
         THEN <<<<"https://www.", "notion.so", "/login">>,
                <<"https://www.", "notion.so">>>>
         ELSE <<url>>

\* src/main.py:125-143: the URLs the two loops go through, in order
PlanUrls(url) == <<url>> \o AltUrls(url)

\* number of navigate() calls the two loops make when none succeeds
PlanLength(url) == Len(Attempts) * Len(PlanUrls(url))

\* the k-th navigate() call of the two loops
PlannedAttempt(url, k) ==
    [url |-> PlanUrls(url)[((k - 1) \div Len(Attempts)) + 1],
     wait_until |-> Attempts[((k - 1) % Len(Attempts)) + 1].wait_until,
     timeout |-> Attempts[((k - 1) % Len(Attempts)) + 1].timeout]

\* src/main.py:153-155: the values page.url may have after the manual prompt
ManualUrls == {<<>>, U_Blank, U_Generic}

\* src/main.py:154: cur_url and "about:blank" not in cur_url
Usable(cur_url) == cur_url # <<>> /\ ~InUrl("about:blank", cur_url)

\* src/main.py:391: ensure_navigate is called with parsed["app_url"]
EnsureNavigate ==
    /\ pc = "navigate"
    /\ \E url \in AppUrls : nav_url' = url
    /\ pc' = "nav_attempt"
    /\ UNCHANGED <<api_trace, retries, loopVars, iterVars, rlVars, verifyVars, fnVars, nav_log,
                   nav_prompted, nav_cur_url, nav_result, nav_failed,
                   loginVars, ctxVars>>

\* src/main.py:125-143 with BrowserController.navigate
\* (src/agent/browser_controller.py:452-458): one navigate() call
NavigateAttempt ==
    /\ pc = "nav_attempt"
    /\ LET k == Len(nav_log) + 1
           a == PlannedAttempt(nav_url, k)
       IN  \E success \in BOOLEAN :
              /\ nav_log' = Append(nav_log,
                    [url |-> a.url, wait_until |-> a.wait_until,
                     timeout |-> a.timeout, success |-> success])
              /\ IF success
                 THEN nav_result' = "True" /\ pc' = "nav_returned"
                 ELSE /\ UNCHANGED nav_result
                      /\ pc' = IF k = PlanLength(nav_url) THEN "nav_manual"
                               ELSE "nav_attempt"
    /\ UNCHANGED <<api_trace, retries, loopVars, iterVars, rlVars, verifyVars, fnVars, nav_url,
                   nav_prompted, nav_cur_url, nav_failed, loginVars, ctxVars>>

\* src/main.py:145-160: the manual fallback
ManualFallback ==
    /\ pc = "nav_manual"
    /\ nav_prompted' = TRUE
    /\ \E cur_url \in ManualUrls :
          /\ nav_cur_url' = cur_url
          /\ nav_result' = IF Usable(cur_url) THEN "True" ELSE "False"
    /\ pc' = "nav_returned"
    /\ UNCHANGED <<api_trace, retries, loopVars, iterVars, rlVars, verifyVars, fnVars, nav_url,
                   nav_log, nav_failed, loginVars, ctxVars>>

AfterNavigate_AlwaysProceeds(result) == "login_check"

\* src/main.py:392-400: if not ensure_navigate(...): ... return
AfterNavigate(result) == IF result = "True" THEN "login_check" ELSE "aborted"

\* src/main.py:392-400: ensure_navigate returned; its locals are gone
NavigationReturned ==
    /\ pc = "nav_returned"
    /\ nav_failed' = (nav_result # "True")
    /\ pc' = AfterNavigate(nav_result)
    /\ nav_url' = <<>>
    /\ nav_log' = <<>>
    /\ nav_prompted' = FALSE
    /\ nav_cur_url' = <<>>
    /\ nav_result' = "none"
    /\ UNCHANGED <<api_trace, retries, loopVars, iterVars, rlVars, verifyVars, fnVars, loginVars,
                   ctxVars>>

\* outcomes of the URL check (src/main.py:427-439), of the DOM check
\* (src/main.py:441-502) and of the screenshot query (src/main.py:529-576)
UrlChecks == {"login_path", "main_app", "error"}
DomChecks == {"login_button", "login_form", "user_indicators", "inconclusive", "error"}
LoginReplies == {"login_page", "not_login_page", "error_text", "unparseable"}

\* src/main.py:424-577: login_required_indicators, logged_in_indicators
LoginRequiredIndicators(url, dom) ==
    (IF url = "login_path" THEN {"Login URL detected"} ELSE {})
    \cup (IF dom = "login_button" THEN {"Login button(s) present"} ELSE {})
    \cup (IF dom = "login_form" THEN {"Login form in DOM"} ELSE {})

LoggedInIndicators(url, dom) ==
    (IF url = "main_app" THEN {"Main app URL"} ELSE {})
    \cup (IF dom = "user_indicators" THEN {"User indicators in DOM"} ELSE {})

\* src/main.py:516-527: the screenshot query is made
Escalates(required, logged) == required = {} /\ logged = {}

\* src/main.py:512-577: needs_login
NeedsLogin(required, logged, response) ==
    IF required # {} THEN TRUE
    ELSE IF logged # {} THEN FALSE
    ELSE response # "not_login_page"

\* src/main.py:424-582
LoginCheck ==
    /\ pc = "login_check"
    /\ \E url \in UrlChecks, dom \in DomChecks, reply \in LoginReplies :
          LET required == LoginRequiredIndicators(url, dom)
              logged == LoggedInIndicators(url, dom)
          IN  /\ ~Escalates(required, logged) => reply = "login_page"
              /\ login_required_indicators' = required
              /\ logged_in_indicators' = logged
              /\ login_response' =
                    IF Escalates(required, logged) THEN reply ELSE "none"
              /\ api_trace' = IF Escalates(required, logged)
                              THEN AnalyzeScreenshotOps ELSE api_trace
              /\ needs_login' = NeedsLogin(required, logged, reply)
              /\ pc' = IF needs_login' THEN "handoff" ELSE "login_done"
    /\ retries' = 0
    /\ UNCHANGED <<loopVars, iterVars, rlVars, verifyVars, fnVars, navVars, nav_failed, ctxVars>>

\* src/main.py:72-111: one pass of the verification loop of
\* manual_login_handoff; retries is local to the call and is gone when it
\* returns
\* src/main.py:78: while retries < 3
LoginRetries == 3

\* what a verification query comes back with: {"is_logged_in": true},
\* {"is_logged_in": false}, a text json.loads rejects, an exception of
\* analyze_screenshot
HandoffReplies == {"confirmed", "denied", "unparseable", "raises"}

IsLoggedIn_FailureConfirms(reply) == reply # "denied"

\* src/main.py:92-102: is_logged_in; an exception leaves the try block
\* before the test
IsLoggedIn(reply) == reply = "confirmed"

ManualLoginHandoff ==
    /\ pc = "handoff"
    /\ IF retries < LoginRetries
       THEN /\ api_trace' = AnalyzeScreenshotOps
            /\ \E reply \in HandoffReplies :
                  \* arg, when given, lists the replies of the oracle
                  /\ arg # <<>> => reply = arg[retries + 1]
                  /\ IF IsLoggedIn(reply)
                     THEN pc' = "login_done" /\ retries' = 0
                     ELSE pc' = "handoff" /\ retries' = retries + 1
       ELSE /\ pc' = "login_done"
            /\ retries' = 0
            /\ UNCHANGED api_trace
    /\ UNCHANGED <<loopVars, iterVars, rlVars, verifyVars, fnVars, setupVars>>

\* src/main.py:584-605: the login check is over; its results are not read
\* again
ProceedToSteps ==
    /\ pc = "login_done"
    /\ pc' = "loop_head"
    /\ logged_in_indicators' = {}
    /\ login_required_indicators' = {}
    /\ login_response' = "none"
    /\ needs_login' = FALSE
    /\ UNCHANGED <<api_trace, retries, loopVars, iterVars, rlVars, verifyVars, fnVars, navVars,
                   nav_failed, ctxVars>>

(***************************************************************************)
(* The Stepping loop of main()                                             *)
(***************************************************************************)
\* replies of the oracle to the goal check
GoalReplies ==
    {[kind |-> "json_object", goal_completed |-> b, reasoning |-> Str(r),
      body |-> <<>>] : b \in BOOLEAN, r \in ReasoningTexts}
    \cup {[kind |-> "json_object", goal_completed |-> FALSE,
           reasoning |-> NonStr, body |-> <<>>]}
    \cup {[kind |-> "json_other", goal_completed |-> FALSE,
           reasoning |-> Str(<<>>), body |-> <<>>]}
    \cup {[kind |-> "prose", goal_completed |-> FALSE,
           reasoning |-> Str(<<>>), body |-> p] : p \in ProseTexts}

\* src/agent/state_detector.py:172-210: the value check_goal_completion
\* returns for a reply
CheckGoalCompletion(reply) ==
    CASE reply.kind = "json_object" ->
            [kind |-> "dict", goal_completed |-> reply.goal_completed,
             reasoning |-> reply.reasoning]
      [] reply.kind = "json_other" ->
            [kind |-> "not_a_dict", goal_completed |-> FALSE,
             reasoning |-> Str(<<>>)]
      [] OTHER ->
            [kind |-> "dict",
             goal_completed |-> Contains(W_goal_completed, Lower(reply.body))
                                /\ Contains(W_true, Lower(reply.body)),
             reasoning |-> Str(reply.body)]

\* src/main.py:807-821 and the else branch at 1656-1657
LoopHead ==
    /\ pc = "loop_head"
    /\ IF step_count < StepBudget
       THEN /\ step_count' = step_count + 1
            /\ dom_snapshot_before' =
                  IF dom_snapshot_before = None THEN page_gen
                  ELSE dom_snapshot_before
            /\ \E s \in Shots : shot' = s
            /\ pc' = "goal_check"
            /\ prev_outcome' = outcome
            /\ outcome' = "pending"
            /\ issued' = Append(issued, NoSuggestion)
            /\ UNCHANGED <<limit_reported, iter_query, iter_exec, iter_hist0,
                           iter_failure>>
       ELSE /\ limit_reported' = TRUE
            /\ pc' = "final"
            /\ UNCHANGED <<step_count, dom_snapshot_before, shot, iterVars>>
    /\ UNCHANGED <<api_trace, retries, goal_reached, page_gen, action_history,
                   previous_screenshot_path, last_llm_suggestion,
                   reuse_previous_instruction, duplicate_screenshot,
                   goal_check, event, text, rlVars, verifyVars, fnVars, setupVars>>

GoalBreaks_NeverBreaks(gc) == FALSE

\* src/main.py:827, 832: goal_completed decides whether the loop is left
GoalBreaks(gc) == gc.goal_completed

\* src/main.py:823-835
GoalCheck ==
    /\ pc = "goal_check"
    /\ api_trace' = AnalyzeScreenshotOps
    /\ \E reply \in GoalReplies :
          LET gc == CheckGoalCompletion(reply) IN
          IF gc.kind = "not_a_dict"
          THEN \* goal_check.get on a value that is not a dict
               /\ pc' = "crashed"
               /\ UNCHANGED <<goal_check, goal_reached, outcome>>
          ELSE /\ goal_check' = gc
               /\ IF GoalBreaks(gc)
                  THEN /\ goal_reached' = TRUE
                       /\ outcome' = "goal"
                       /\ pc' = "final"
                  ELSE /\ pc' = "compare"
                       /\ UNCHANGED <<goal_reached, outcome>>
    /\ UNCHANGED <<retries, step_count, limit_reported, dom_snapshot_before,
                   page_gen, action_history, previous_screenshot_path, shot,
                   last_llm_suggestion, reuse_previous_instruction,
                   duplicate_screenshot, event, text, iter_query, iter_exec,
                   iter_hist0, iter_failure, issued, prev_outcome, rlVars, verifyVars, fnVars, setupVars>>

\* bool(goal_reasoning)
Truthy(r) == ~r.isstr \/ r.s # <<>>

\* src/main.py:848, 852: the reasoning mentions "click" or "select"
MentionsClick(r) ==
    Contains(W_click, Lower(r.s)) \/ Contains(W_select, Lower(r.s))

ReuseDecision_IgnoresReasoning(dup, reasoning, last, old) ==
    IF ~dup THEN FALSE ELSE last.present

ReuseDecision_IgnoresDuplicate(dup, reasoning, last, old) ==
    last.present

\* src/main.py:837-875: the value of reuse_previous_instruction after the
\* duplicate-screenshot check (old is its value before; it is kept when
\* goal_reasoning.lower() raises inside the try block)
ReuseDecision(dup, reasoning, last, old) ==
    IF ~dup THEN FALSE
    ELSE IF Truthy(reasoning) /\ last.present
         THEN IF ~reasoning.isstr THEN old
              ELSE IF MentionsClick(reasoning) /\ LowerEvent(last.event) = "fill"
                   THEN FALSE
                   ELSE TRUE
         ELSE last.present

\* src/main.py:884, 900 and 917, 932, 916: the windows of the prompt context
\* and the length above which it is shortened
ContextWindow == 10
SummaryWindow == 5
ClickWindow == 3
ContextLimit == 2000

\* the indices of h[-n:]
LastIdx(h, n) == {i \in 1..Len(h) : i > Len(h) - n}

\* len(str(step_num))
Digits(n) == IF n < 10 THEN 1 ELSE 2

\* len(result)
ResultLen(r) ==
    CASE r = "failed - no elements found" -> 26
      [] r = "failed - no UI change detected" -> 30
      [] r = "failed - fillable element not found" -> 35
      [] r = "error - exception" -> 17
      [] OTHER -> 24

\* the value entered by a fill (src/main.py:1147) as kept in its record; the
\* record of a fill that raised has none (src/main.py:1636-1641)
ValueLen(rec) ==
    IF rec.action = "fill" /\ rec.result # "error - exception" THEN 4 ELSE 0

\* src/main.py:885-896: length of the line that lists one record
LineLen(rec) ==
    IF rec.action = "fill" /\ ValueLen(rec) > 0
    THEN 7 + Digits(rec.step) + 10 + Len(rec.target) + 8 + ValueLen(rec) + 4
         + ResultLen(rec.result)
    ELSE IF rec.action = "click"
         THEN 7 + Digits(rec.step) + 11 + Len(rec.target) + 4
              + ResultLen(rec.result)
         ELSE 7 + Digits(rec.step) + 2 + 4 + 2 + Len(rec.target) + 4
              + ResultLen(rec.result)

\* src/main.py:899-905: length of one entry of recent_actions_summary
SummaryLen(rec) ==
    IF rec.action = "click" THEN 8 + Len(rec.target) ELSE 7 + Len(rec.target)

RECURSIVE SumOver(_, _, _)
\* sum of f[h[i]] for the indices i of S
SumOver(h, S, f) ==
    IF S = {} THEN 0
    ELSE LET i == CHOOSE j \in S : TRUE
         IN  f[h[i]] + SumOver(h, S \ {i}, f)

\* src/main.py:899-905: the indices that enter recent_actions_summary
SummaryIdx(h) ==
    {i \in LastIdx(h, SummaryWindow) : h[i].action \in {"click", "fill"}}

\* src/main.py:881-913: len(context_str) before it is shortened
ContextLen(h) ==
    IF h = <<>> THEN 15
    ELSE 29
         + SumOver(h, LastIdx(h, ContextWindow),
                   [rec \in {h[i] : i \in 1..Len(h)} |-> 1 + LineLen(rec)])
         + (IF SummaryIdx(h) = {} THEN 0
            ELSE 1 + 18
                 + SumOver(h, SummaryIdx(h),
                           [rec \in {h[i] : i \in 1..Len(h)} |-> SummaryLen(rec)])
                 + 3 * (Cardinality(SummaryIdx(h)) - 1)
                 + 1 + 143)

\* src/main.py:916: the context is replaced by its short form
ContextSummarized(h) == ContextLen(h) > ContextLimit

ListedRecords_WholeHistory(h) == 1..Len(h)

\* src/main.py:884-896, 917-924: the records listed one per line
ListedRecords(h) ==
    IF ContextSummarized(h) THEN LastIdx(h, SummaryWindow)
    ELSE LastIdx(h, ContextWindow)

\* src/main.py:880-936: every record the prompt names (listed lines, the
\* recent workflow, the recently clicked targets)
MentionedRecords(h) ==
    ListedRecords(h)
    \cup (IF ContextSummarized(h) THEN {} ELSE SummaryIdx(h))
    \cup {i \in LastIdx(h, ClickWindow) : h[i].action = "click"}

\* src/main.py:880-936
BuildContext(h) ==
    /\ context_listed' = ListedRecords(h)
    /\ context_mentioned' = MentionedRecords(h)
    /\ context_summarized' = ContextSummarized(h)

\* src/main.py:837-936
Compare ==
    /\ pc = "compare"
    /\ LET dup == previous_screenshot_path # None
                  /\ previous_screenshot_path = shot
       IN  /\ duplicate_screenshot' = dup
           /\ reuse_previous_instruction' =
                 ReuseDecision(dup, goal_check.reasoning, last_llm_suggestion,
                               reuse_previous_instruction)
    /\ previous_screenshot_path' = shot
    /\ BuildContext(action_history)
    /\ pc' = "decide"
    /\ UNCHANGED <<api_trace, retries, step_count, goal_reached, limit_reported,
                   dom_snapshot_before, page_gen, action_history, shot,
                   last_llm_suggestion, goal_check, event, text, iterVars,
                   rlVars, verifyVars, fnVars, navVars, nav_failed,
                   loginVars>>

\* replies of the oracle to the action query, as seen after
\* detector._clean_json_like and json.loads
ActionReplies ==
    {[kind |-> k, event |-> "", event_isstr |-> TRUE, text |-> <<>>,
      text_isstr |-> TRUE] : k \in {"nojson", "badjson"}}
    \cup {[kind |-> "object", event |-> i[1], event_isstr |-> TRUE,
           text |-> i[2], text_isstr |-> TRUE] : i \in RawIntents}
    \cup {[kind |-> "object", event |-> "", event_isstr |-> FALSE,
           text |-> T_Save, text_isstr |-> TRUE],
          [kind |-> "object", event |-> "click", event_isstr |-> TRUE,
           text |-> <<>>, text_isstr |-> FALSE]}

\* src/main.py:981-988: the cached instruction is used
CanReuse(reuse, last) ==
    reuse /\ LowerEvent(last.event) # "" /\ Strip(last.text) # <<>>

\* src/main.py:978-1026
Decide ==
    /\ pc = "decide"
    /\ IF CanReuse(reuse_previous_instruction, last_llm_suggestion)
       THEN /\ event' = LowerEvent(last_llm_suggestion.event)
            /\ text' = Strip(last_llm_suggestion.text)
            /\ issued' = [issued EXCEPT ![step_count] = Suggestion(event', text')]
            /\ pc' = "execute"
            /\ UNCHANGED <<api_trace, last_llm_suggestion,
                           reuse_previous_instruction, iter_query, outcome>>
       ELSE /\ reuse_previous_instruction' = FALSE
            /\ api_trace' = AnalyzeScreenshotOps
            /\ iter_query' = TRUE
            /\ \E reply \in ActionReplies :
                  CASE reply.kind \in {"nojson", "badjson"} ->
                          /\ event' = ""
                          /\ text' = <<>>
                          /\ outcome' = "parse_skip"
                          /\ pc' = "continue"
                          /\ UNCHANGED <<last_llm_suggestion, issued>>
                    [] reply.kind = "object"
                       /\ ~(reply.event_isstr /\ reply.text_isstr) ->
                          \* .lower() / .strip() on a value that is not a str
                          /\ pc' = "crashed"
                          /\ UNCHANGED <<event, text, outcome,
                                         last_llm_suggestion, issued>>
                    [] OTHER ->
                          /\ event' = LowerEvent(reply.event)
                          /\ text' = CleanText(reply.text)
                          /\ IF event' = "" \/ text' = <<>>
                             THEN /\ outcome' = "invalid_skip"
                                  /\ pc' = "continue"
                                  /\ UNCHANGED <<last_llm_suggestion, issued>>
                             ELSE /\ last_llm_suggestion' =
                                        Suggestion(event', text')
                                  /\ issued' = [issued EXCEPT ![step_count] =
                                                   Suggestion(event', text')]
                                  /\ pc' = "execute"
                                  /\ UNCHANGED outcome
    /\ UNCHANGED <<retries, step_count, goal_reached, limit_reported,
                   dom_snapshot_before, page_gen, action_history,
                   previous_screenshot_path, shot, duplicate_screenshot,
                   goal_check, iter_exec, iter_hist0, iter_failure,
                   prev_outcome, rlVars, verifyVars, fnVars, setupVars>>

\* action_history[-n:]
LastN(h, n) == IF Len(h) <= n THEN h ELSE SubSeq(h, Len(h) - n + 1, Len(h))

RecentSameActions_ExecutedOnly(h, t) ==
    {i \in 1..Len(LastN(h, LoopWindow)) :
        /\ LastN(h, LoopWindow)[i].action = "click"
        /\ LastN(h, LoopWindow)[i].target = t
        /\ LastN(h, LoopWindow)[i].result # "loop_detected - skipping"}

\* src/main.py:1033: recent_same_actions
RecentSameActions(h, t) ==
    {i \in 1..Len(LastN(h, LoopWindow)) :
        /\ LastN(h, LoopWindow)[i].action = "click"
        /\ LastN(h, LoopWindow)[i].target = t}

LoopDetected_ThreeRepeats(h, t) ==
    Cardinality(RecentSameActions(h, t)) >= LoopThreshold + 1

\* src/main.py:1034
LoopDetected(h, t) == Cardinality(RecentSameActions(h, t)) >= LoopThreshold

Record_StepZero(st, a, t, r) ==
    [step |-> 0, action |-> a, target |-> t, result |-> r]

\* src/main.py:1038-1043, 1102-1107, 1121-1136, 1601-1641: an ActionRecord
Record(st, a, t, r) == [step |-> st, action |-> a, target |-> t, result |-> r]

\* results of click_text_anywhere (src/main.py:163-336)
ClickResults == {"locator", "fallback_mouse", "no elements found"}

\* results of page.evaluate(fill_script, ...) (src/main.py:1549-1641)
FillResults == {"success", "fillable element not found", "exception"}

\* outcomes of the guarded re-snapshot and diff after an action
\* (src/main.py:1080-1085, 1582-1587)
ResnapshotResults == {"ok", "raise"}

\* number of elements the diff reports after a click / after a fill
ClickChanges == {0, 1}
FillChanges == {0}

\* f"success - {new_count} new elements"
SuccessResult(n) ==
    IF n = 0 THEN "success - 0 new elements" ELSE "success - 1 new elements"

ClickResultText_FailureAsSuccess(res, count, no_effect) ==
    IF no_effect THEN "failed - no UI change detected"
    ELSE SuccessResult(count)

\* src/main.py:1102-1107, 1121-1136: the result text of a click record
ClickResultText(res, count, no_effect) ==
    IF res = "no elements found" THEN "failed - no elements found"
    ELSE IF no_effect THEN "failed - no UI change detected"
    ELSE SuccessResult(count)

\* src/main.py:1601-1641: the result text of a fill record
FillResultText(res, count) ==
    CASE res = "success" -> SuccessResult(count)
      [] res = "fillable element not found" ->
            "failed - fillable element not found"
      [] OTHER -> "error - exception"

NoEffect_AnyZeroChange(count, check, before) == count = 0

\* src/main.py:1090-1110: the click changed nothing: no new element and a
\* verification screenshot identical to the screenshot of the step
NoEffect(count, check, before) == count = 0 /\ check = before

\* src/main.py:1029-1141: the click branch
ExecuteClick ==
    /\ pc = "execute"
    /\ event = "click"
    /\ IF LoopDetected(action_history, text)
       THEN /\ action_history' = Append(action_history,
                  Record(step_count, "click", text, "loop_detected - skipping"))
            /\ last_llm_suggestion' = NoSuggestion
            /\ outcome' = "loop_skip"
            /\ pc' = "continue"
            /\ UNCHANGED <<iter_exec, iter_failure, page_gen,
                           dom_snapshot_before, verifyVars>>
       ELSE /\ iter_exec' = "click"
            /\ \E res \in ClickResults, snap \in ResnapshotResults,
                  changed \in ClickChanges, check \in Shots \cup {None} :
                  IF res = "no elements found"
                  THEN /\ snap = "ok" /\ changed = 0 /\ check = None
                       /\ action_history' = Append(action_history,
                             Record(step_count, "click", text,
                                    ClickResultText(res, 0, FALSE)))
                       /\ iter_failure' = "not_found"
                       /\ outcome' = "executed"
                       /\ pc' = "iter_end"
                       /\ UNCHANGED <<page_gen, dom_snapshot_before,
                                      last_llm_suggestion, verifyVars>>
                  ELSE LET count == IF snap = "raise" THEN 0 ELSE changed
                           \* check = None: the verification screenshot
                           \* was not taken
                           no_effect ==
                               NoEffect(count, check, previous_screenshot_path)
                       IN
                       /\ snap = "raise" => changed = 0
                       /\ count > 0 => check = None
                       /\ new_count' = count
                       /\ current_check' = check
                       /\ page_gen' = page_gen + 1
                       /\ iter_failure' =
                             IF snap = "raise" THEN "resnapshot" ELSE "none"
                       /\ action_history' = Append(action_history,
                             Record(step_count, "click", text,
                                    ClickResultText(res, count, no_effect)))
                       /\ IF no_effect
                          THEN /\ last_llm_suggestion' = NoSuggestion
                               /\ outcome' = "no_ui_change"
                               /\ pc' = "continue"
                               /\ UNCHANGED dom_snapshot_before
                          ELSE /\ dom_snapshot_before' =
                                     IF count > 0 THEN page_gen'
                                     ELSE dom_snapshot_before
                               /\ outcome' = "executed"
                               /\ pc' = "iter_end"
                               /\ UNCHANGED last_llm_suggestion
    /\ UNCHANGED <<api_trace, retries, step_count, goal_reached, limit_reported,
                   previous_screenshot_path, shot, reuse_previous_instruction,
                   duplicate_screenshot, goal_check, event, text, iter_query,
                   iter_hist0, issued, prev_outcome, rlVars, fnVars, setupVars>>

\* src/main.py:1143-1646: the fill branch
ExecuteFill ==
    /\ pc = "execute"
    /\ event = "fill"
    /\ iter_exec' = "fill"
    /\ \E res \in FillResults, snap \in ResnapshotResults,
          changed \in FillChanges :
          /\ (res # "success" \/ snap = "raise") => changed = 0
          /\ res # "success" => snap = "ok"
          /\ action_history' = Append(action_history,
                Record(step_count, "fill", text, FillResultText(res, changed)))
          /\ IF res = "success"
             THEN /\ page_gen' = page_gen + 1
                  /\ dom_snapshot_before' =
                        IF snap = "ok" THEN page_gen' ELSE dom_snapshot_before
                  /\ iter_failure' =
                        IF snap = "raise" THEN "resnapshot" ELSE "none"
             ELSE /\ iter_failure' =
                        IF res = "exception" THEN "fill_exception"
                        ELSE "not_found"
                  /\ UNCHANGED <<page_gen, dom_snapshot_before>>
    /\ outcome' = "executed"
    /\ pc' = "iter_end"
    /\ UNCHANGED <<api_trace, retries, step_count, goal_reached, limit_reported,
                   previous_screenshot_path, shot, last_llm_suggestion,
                   reuse_previous_instruction, duplicate_screenshot, goal_check,
                   event, text, iter_query, iter_hist0, issued, prev_outcome,
                   rlVars, verifyVars, fnVars, setupVars>>

ExecuteOther_EndsRun ==
    /\ pc = "execute"
    /\ event \notin {"click", "fill"}
    /\ outcome' = "goal"
    /\ goal_reached' = TRUE
    /\ pc' = "final"
    /\ UNCHANGED <<api_trace, retries, step_count, limit_reported,
                   dom_snapshot_before, page_gen, action_history,
                   previous_screenshot_path, shot, last_llm_suggestion,
                   reuse_previous_instruction, duplicate_screenshot,
                   goal_check, event, text, iter_query, iter_exec,
                   iter_hist0, iter_failure, issued, prev_outcome, rlVars,
                   verifyVars, fnVars, setupVars>>

\* src/main.py:1029, 1143: an event that is neither click nor fill
ExecuteOther ==
    /\ pc = "execute"
    /\ event \notin {"click", "fill"}
    /\ outcome' = "noop"
    /\ pc' = "iter_end"
    /\ UNCHANGED <<api_trace, retries, loopVars, iter_query, iter_exec,
                   iter_hist0, iter_failure, issued, prev_outcome, rlVars, verifyVars, fnVars, setupVars>>

\* The names bound inside one iteration (shot, goal_check,
\* duplicate_screenshot, event, text) are assigned again at src/main.py:820,
\* 824, 837, 978-979 before the next iteration reads them; the model clears
\* them when the iteration ends.
EndIteration ==
    /\ shot' = None
    /\ goal_check' = NoGoalCheck
    /\ duplicate_screenshot' = FALSE
    /\ event' = ""
    /\ text' = <<>>
    /\ iter_query' = FALSE
    /\ iter_exec' = "none"
    /\ iter_failure' = "none"
    /\ iter_hist0' = Len(action_history)
    /\ context_listed' = {}
    /\ context_mentioned' = {}
    /\ context_summarized' = FALSE
    /\ current_check' = None
    /\ new_count' = None
    /\ UNCHANGED <<outcome, prev_outcome, issued>>

\* src/main.py:1648-1650
IterEnd ==
    /\ pc = "iter_end"
    /\ dom_snapshot_before' = page_gen
    /\ pc' = "loop_head"
    /\ EndIteration
    /\ UNCHANGED <<api_trace, retries, step_count, goal_reached, limit_reported,
                   page_gen, action_history, previous_screenshot_path,
                   last_llm_suggestion, reuse_previous_instruction, rlVars, fnVars,
                   navVars, nav_failed, loginVars>>

\* the continue statements at src/main.py:1001, 1007, 1010, 1023, 1046, 1110
Continue ==
    /\ pc = "continue"
    /\ pc' = "loop_head"
    /\ EndIteration
    /\ UNCHANGED <<api_trace, retries, step_count, goal_reached, limit_reported,
                   dom_snapshot_before, page_gen, action_history,
                   previous_screenshot_path, last_llm_suggestion,
                   reuse_previous_instruction, rlVars, fnVars,
                   navVars, nav_failed, loginVars>>

Next ==
    \/ ParseTask
    \/ EnsureNavigate
    \/ NavigateAttempt
    \/ ManualFallback
    \/ NavigationReturned
    \/ LoginCheck
    \/ ManualLoginHandoff
    \/ ProceedToSteps
    \/ LoopHead
    \/ GoalCheck
    \/ Compare
    \/ Decide
    \/ ExecuteClick
    \/ ExecuteFill
    \/ ExecuteOther
    \/ IterEnd
    \/ Continue

Spec == Init /\ [][Next]_vars

(***************************************************************************)
(* RateLimiter (src/utils/rate_limiter.py).  Time is counted in half       *)
(* seconds, so that the 0.5 s buffer of wait_if_needed is one unit.        *)
(***************************************************************************)
\* largest max_calls and time_window (seconds) a limiter is built with
MaxCalls == 2
MaxWindow == 2

\* last clock reading and number of calls explored
MaxClock == 9
MaxAdmitted == 4

\* src/utils/rate_limiter.py:39: the 0.5 s buffer, in half seconds
SleepBuffer == 1

\* time_window in half seconds
Window(tw) == 2 * tw

\* src/utils/rate_limiter.py:31-32 and 42-43: drop the calls that left the
\* window
RECURSIVE Expire(_, _, _)
Expire(ct, now, tw) ==
    IF ct # <<>> /\ ct[1] < now - Window(tw)
    THEN Expire(Tail(ct), now, tw)
    ELSE ct

WaitTime_IgnoresNow(ct, now, tw) == ct[1] + Window(tw)

\* src/utils/rate_limiter.py:36
WaitTime(ct, now, tw) == ct[1] + Window(tw) - now

\* src/utils/rate_limiter.py:11-21
RLInitial ==
    /\ max_calls \in 0..MaxCalls
    /\ time_window \in 1..MaxWindow
    /\ clock = 0
    /\ call_times = <<>>
    /\ admitted = <<>>
    /\ last_sleep = 0

InitRL ==
    /\ pc = "rl_ready"
    /\ api_trace = <<>>
    /\ retries = 0
    /\ step_count = 0
    /\ goal_reached = FALSE
    /\ limit_reported = FALSE
    /\ dom_snapshot_before = None
    /\ page_gen = 0
    /\ action_history = <<>>
    /\ previous_screenshot_path = None
    /\ shot = None
    /\ last_llm_suggestion = NoSuggestion
    /\ reuse_previous_instruction = FALSE
    /\ duplicate_screenshot = FALSE
    /\ goal_check = NoGoalCheck
    /\ event = ""
    /\ text = <<>>
    /\ iter_query = FALSE
    /\ iter_exec = "none"
    /\ iter_hist0 = 0
    /\ iter_failure = "none"
    /\ issued = <<>>
    /\ outcome = "none"
    /\ prev_outcome = "none"
    /\ RLInitial
    /\ SetupInit
    /\ FnInit

\* time passes between two calls
Tick ==
    /\ pc = "rl_ready"
    /\ clock < MaxClock
    /\ clock' = clock + 1
    /\ UNCHANGED <<pc, api_trace, retries, loopVars, iterVars, max_calls,
                   time_window, call_times, admitted, last_sleep, setupVars,
                   verifyVars, fnVars>>

\* src/utils/rate_limiter.py:23-46.  late is the time time.sleep() overshoots,
\* lag the time between the last reading of now and the recording of the call.
WaitIfNeeded ==
    /\ pc = "rl_ready"
    /\ Len(admitted) < MaxAdmitted
    /\ \E late \in 0..1, lag \in 0..1 :
          LET now1 == clock
              ct1 == Expire(call_times, now1, time_window)
              full == Len(ct1) >= max_calls
          IN
          IF full /\ ct1 = <<>>
          THEN \* call_times[0] on an empty deque: IndexError
               /\ late = 0 /\ lag = 0
               /\ pc' = "rl_raised"
               /\ UNCHANGED <<clock, call_times, admitted, last_sleep>>
          ELSE LET wait_time == IF full THEN WaitTime(ct1, now1, time_window)
                                ELSE 0
                   sleeps == full /\ wait_time > 0
                   slept == IF sleeps THEN wait_time + SleepBuffer ELSE 0
                   now2 == IF sleeps THEN now1 + slept + late ELSE now1
                   ct2 == IF sleeps THEN Expire(ct1, now2, time_window)
                          ELSE ct1
                   stamp == now2 + lag
               IN
               /\ ~sleeps => late = 0
               /\ last_sleep' = slept
               /\ clock' = stamp
               /\ call_times' = Append(ct2, stamp)
               /\ admitted' = Append(admitted, stamp)
               /\ UNCHANGED pc
    /\ UNCHANGED <<api_trace, retries, loopVars, iterVars, max_calls,
                   time_window, setupVars, verifyVars, fnVars>>

\* src/utils/rate_limiter.py:48-54: get_remaining_calls; ret holds the value
\* returned
Max0(n) == IF n > 0 THEN n ELSE 0

GetRemainingCalls ==
    /\ pc = "rl_ready"
    /\ call_times' = Expire(call_times, clock, time_window)
    /\ ret' = <<Max0(max_calls - Len(call_times'))>>
    /\ UNCHANGED <<pc, arg, api_trace, retries, loopVars, iterVars, max_calls,
                   time_window, clock, admitted, last_sleep, setupVars,
                   verifyVars>>

NextRL ==
    \/ Tick
    \/ WaitIfNeeded
    \/ GetRemainingCalls

SpecRL == InitRL /\ [][NextRL]_vars


(***************************************************************************)
(* The prompt context of src/main.py:880-936 over long histories           *)
(***************************************************************************)
\* longest history explored
MaxHistory == 12

\* a target of 250 characters
T_Long == [i \in 1..250 |-> "a"]

\* the records a history is made of
RecordKinds ==
    {[action |-> "click", target |-> T_Save,
      result |-> "failed - no elements found"],
     [action |-> "fill", target |-> T_Long,
      result |-> "success - 0 new elements"]}

\* the histories of n records, one per step
Histories(n) ==
    {[i \in 1..n |-> Record(i, k[i].action, k[i].target, k[i].result)] :
        k \in [1..n -> RecordKinds]}

\* an iteration that is about to build its prompt: one record was appended
\* in each of the iterations before it
InitCtx ==
    /\ pc = "ctx_ready"
    /\ api_trace = <<>>
    /\ retries = 0
    /\ action_history \in UNION {Histories(n) : n \in 0..MaxHistory}
    /\ step_count = Len(action_history) + 1
    /\ goal_reached = FALSE
    /\ limit_reported = FALSE
    /\ dom_snapshot_before = None
    /\ page_gen = 0
    /\ previous_screenshot_path = None
    /\ shot = None
    /\ last_llm_suggestion = NoSuggestion
    /\ reuse_previous_instruction = FALSE
    /\ duplicate_screenshot = FALSE
    /\ goal_check = NoGoalCheck
    /\ event = ""
    /\ text = <<>>
    /\ iter_query = FALSE
    /\ iter_exec = "none"
    /\ iter_hist0 = Len(action_history)
    /\ iter_failure = "none"
    /\ issued = <<>>
    /\ outcome = "pending"
    /\ prev_outcome = "none"
    /\ RLInit
    /\ SetupInit
    /\ FnInit

\* src/main.py:880-936
BuildPromptContext ==
    /\ pc = "ctx_ready"
    /\ BuildContext(action_history)
    /\ pc' = "ctx_built"
    /\ UNCHANGED <<api_trace, retries, loopVars, iterVars, rlVars, verifyVars, fnVars, navVars,
                   nav_failed, loginVars>>

NextCtx == BuildPromptContext

SpecCtx == InitCtx /\ [][NextCtx]_vars


(***************************************************************************)
(* Text normalization for element matching (src/main.py:172-180, 247-253)  *)
(***************************************************************************)
\* longest text explored
MaxTextLen == 4

\* the characters the explored texts are made of
TextAlphabet == {"A", "a", "1", " ", "\t", "+"}

T_BlankPlusProject ==
    <<"B", "l", "a", "n", "k", " ", "+", " ", "P", "r", "o", "j", "e", "c", "t">>
T_BlankProject ==
    <<"B", "l", "a", "n", "k", " ", "P", "r", "o", "j", "e", "c", "t">>

\* the texts of at most n characters
Texts(n) == UNION {[1..k -> TextAlphabet] : k \in 0..n}

NormalizeTextForMatching_KeepsPunctuation(t) == Lower(Strip(CollapseSpaces(t)))

\* src/main.py:172-180: normalize_text_for_matching; the normalize function
\* of the scripts (src/main.py:247-253) does the same in JavaScript
NormalizeTextForMatching(t) == Lower(Strip(CollapseSpaces(RemoveSpecial(t))))

InitNorm ==
    /\ pc = "norm_ready"
    /\ arg \in Texts(MaxTextLen) \cup {T_BlankPlusProject, T_BlankProject}
    /\ ret = <<>>
    /\ IdleInit

\* one application of the normalization, to the text or to the last result
Normalize ==
    /\ pc \in {"norm_ready", "norm_once"}
    /\ ret' = Append(ret, NormalizeTextForMatching(
                              IF ret = <<>> THEN arg ELSE ret[Len(ret)]))
    /\ pc' = IF pc = "norm_ready" THEN "norm_once" ELSE "norm_twice"
    /\ UNCHANGED <<arg, api_trace, retries, loopVars, iterVars, rlVars,
                   setupVars, verifyVars>>

NextNorm == Normalize

SpecNorm == InitNorm /\ [][NextNorm]_vars

(***************************************************************************)
(* The full-DOM scans: the fallback script of click_text_anywhere          *)
(* (src/main.py:240-299) and BrowserController._click_via_text             *)
(* (src/agent/browser_controller.py:246-293).  A page is the list of its   *)
(* elements in document order; an element records its tag, whether it has *)
(* a role attribute, whether its cursor is a pointer, its innerText and    *)
(* the index of its parent (0 for the body).                               *)
(***************************************************************************)
MaxElements == 2

T_SaveBang == <<"S", "a", "v", "e", "!">>
T_Sa == <<"S", "a">>

ElementTags == {"button", "div"}
ElementTexts == {T_Save, T_SaveBang, T_Sa}
Queries == {T_Save, T_SaveBang}

Elements(n) ==
    [tag : ElementTags, role : BOOLEAN, pointer : BOOLEAN,
     innerText : ElementTexts, parent : 0..(n - 1)]

\* document.querySelectorAll('*'): a parent precedes its children, and the
\* innerText of a parent includes the innerText of each child
Pages(n) ==
    UNION {{p \in [1..k -> Elements(n)] :
               \A i \in 1..k :
                   /\ p[i].parent < i
                   /\ p[i].parent # 0
                        => Contains(p[i].innerText, p[p[i].parent].innerText)}
           : k \in 1..n}

\* s.startsWith(prefix)
StartsWith(prefix, s) ==
    Len(prefix) <= Len(s) /\ SubSeq(s, 1, Len(prefix)) = prefix

\* src/main.py:256-261: the elements kept by the filter of the fallback script
FallbackCandidates(page, t) ==
    LET targetNormalized == NormalizeTextForMatching(t)
    IN  {i \in 1..Len(page) :
            /\ page[i].innerText # <<>>
            /\ LET elNormalized == NormalizeTextForMatching(page[i].innerText)
               IN  \/ Contains(targetNormalized, elNormalized)
                   \/ Contains(elNormalized, targetNormalized)}

\* src/main.py:265-281: rank(el), in hundredths
Rank(el, t) ==
    LET targetNormalized == NormalizeTextForMatching(t)
        elNormalized == NormalizeTextForMatching(el.innerText)
        score == (IF el.tag \in {"button", "a", "input"} THEN 10 ELSE 0)
                 + (IF el.pointer THEN 5 ELSE 0)
                 + (IF el.role THEN 2 ELSE 0)
                 + (IF elNormalized = targetNormalized THEN 20
                    ELSE IF StartsWith(targetNormalized, elNormalized) THEN 15
                    ELSE IF Contains(targetNormalized, elNormalized) THEN 10
                    ELSE 0)
    IN  score * 100 - Len(el.innerText)

\* src/main.py:263, 283-284: null without candidates, else the first element
\* of the candidates sorted by descending rank (the sort is stable)
FallbackScan(page, t) ==
    LET els == FallbackCandidates(page, t)
    IN  IF els = {} THEN 0
        ELSE CHOOSE i \in els :
                 \A j \in els :
                     \/ Rank(page[j], t) < Rank(page[i], t)
                     \/ Rank(page[j], t) = Rank(page[i], t) /\ i <= j

\* src/agent/browser_controller.py:257-258: the filter of _click_via_text
ViaTextCandidates(page, query) ==
    {i \in 1..Len(page) :
        /\ page[i].innerText # <<>>
        /\ Contains(Lower(query), Lower(page[i].innerText))}

\* src/agent/browser_controller.py:261-263: the reduce keeps the element with
\* the least innerText, the earliest of those on a tie
ClickViaText(page, query) ==
    LET elements == ViaTextCandidates(page, query)
    IN  IF elements = {} THEN 0
        ELSE CHOOSE i \in elements :
                 \A j \in elements :
                     \/ Len(page[i].innerText) < Len(page[j].innerText)
                     \/ Len(page[i].innerText) = Len(page[j].innerText)
                          /\ i <= j

InitScan ==
    /\ pc = "scan_ready"
    /\ arg \in [query : Queries, page : Pages(MaxElements)]
    /\ ret = <<>>
    /\ IdleInit

\* BrowserController._click_via_text(query) on the page
RunClickViaText ==
    /\ pc = "scan_ready"
    /\ ret' = Append(ret, ClickViaText(arg.page, Strip(arg.query)))
    /\ pc' = "scan_via_text"
    /\ UNCHANGED <<arg, api_trace, retries, loopVars, iterVars, rlVars,
                   setupVars, verifyVars>>

\* the fallback script of click_text_anywhere(page, query) on the page
RunFallbackScan ==
    /\ pc = "scan_via_text"
    /\ ret' = Append(ret, FallbackScan(arg.page, Strip(arg.query)))
    /\ pc' = "scan_done"
    /\ UNCHANGED <<arg, api_trace, retries, loopVars, iterVars, rlVars,
                   setupVars, verifyVars>>

NextScan == RunClickViaText \/ RunFallbackScan

SpecScan == InitScan /\ [][NextScan]_vars

(***************************************************************************)
(* Parsing of oracle replies: StateDetector.check_goal_completion          *)
(* (src/agent/state_detector.py:185-210), NavigationPlanner.get_next_action *)
(* (src/agent/navigation_planner.py:108-131) and the action query of       *)
(* main() (src/main.py:995-1010).  A reply is a sequence of characters.     *)
(***************************************************************************)
\* the text of a goal-check object that reports completion
J_Done ==
    <<"{", "\"", "g", "o", "a", "l", "_", "c", "o", "m", "p", "l", "e",
      "t", "e", "d", "\"", ":", " ", "t", "r", "u", "e", "}">>
\* the text of a goal-check object that reports no completion
J_NotDone ==
    <<"{", "\"", "g", "o", "a", "l", "_", "c", "o", "m", "p", "l", "e",
      "t", "e", "d", "\"", ":", " ", "f", "a", "l", "s", "e", "}">>
\* the text of an action object
J_Click ==
    <<"{", "\"", "e", "v", "e", "n", "t", "\"", ":", " ", "\"", "c", "l",
      "i", "c", "k", "\"", ",", " ", "\"", "t", "e", "x", "t", "\"", ":",
      " ", "\"", "S", "a", "v", "e", "\"", "}">>
\* the character U+0060 (GRAVE ACCENT) of a code fence
BackTick == "BACKTICK"

F_Json ==
    <<BackTick, BackTick, BackTick, "j", "s", "o", "n">>
F_Plain ==
    <<BackTick, BackTick, BackTick>>
Pre_FenceJson ==
    <<BackTick, BackTick, BackTick, "j", "s", "o", "n", "\n">>
Pre_Fence ==
    <<BackTick, BackTick, BackTick, "\n">>
\* prose before the object
Pre_NotTrue ==
    <<"n", "o", "t", " ", "t", "r", "u", "e", ":", " ">>
Pre_Note ==
    <<"n", "o", "t", "e", ":", " ">>
Post_Fence ==
    <<"\n", BackTick, BackTick, BackTick>>
\* prose after the object
Post_Ok ==
    <<" ", "o", "k">>
Post_Newline ==
    <<"\n">>

JsonObjectTexts == {J_Done, J_NotDone, J_Click}
ReplyPrefixes == {<<>>, Pre_FenceJson, Pre_Fence, Pre_NotTrue, Pre_Note}
ReplySuffixes == {<<>>, Post_Fence, Post_Ok, Post_Newline}

\* the replies of the oracle: at most one JSON object, with a fence or prose
\* before and after it
ReplyTexts ==
    {pre \o obj \o post : pre \in ReplyPrefixes,
                          obj \in JsonObjectTexts \cup {<<>>},
                          post \in ReplySuffixes}

\* a parsed JSON object: the values of the keys the callers read
JsonValue(g, e, t) == [goal_completed |-> g, event |-> e, text |-> t]

NoValue == JsonValue("absent", "absent", <<>>)

\* json.loads on the texts of ReplyTexts: the text, surrounding whitespace
\* aside, must be one JSON value; anything else is a JSONDecodeError
JsonLoads(s) ==
    LET body == Strip(s)
    IN  CASE body = J_Done ->
                [ok |-> TRUE, value |-> JsonValue("true", "absent", <<>>)]
          [] body = J_NotDone ->
                [ok |-> TRUE, value |-> JsonValue("false", "absent", <<>>)]
          [] body = J_Click ->
                [ok |-> TRUE, value |-> JsonValue("absent", "click", T_Save)]
          [] OTHER -> [ok |-> FALSE, value |-> NoValue]

\* s.endswith(suffix)
EndsWith(suffix, s) ==
    /\ Len(suffix) <= Len(s)
    /\ SubSeq(s, Len(s) - Len(suffix) + 1, Len(s)) = suffix

\* s[n:]
DropFirst(s, n) == SubSeq(s, n + 1, Len(s))

StripFences_JsonFenceAsPlain(result) ==
    LET t0 == Strip(result)
        t2 == IF StartsWith(F_Plain, t0) THEN DropFirst(t0, 3) ELSE t0
        t3 == IF EndsWith(F_Plain, t2) THEN SubSeq(t2, 1, Len(t2) - 3)
              ELSE t2
    IN  Strip(t3)

\* src/agent/state_detector.py:190-198 and
\* src/agent/navigation_planner.py:110-119
StripFences(result) ==
    LET t0 == Strip(result)
        t1 == IF StartsWith(F_Json, t0) THEN DropFirst(t0, 7) ELSE t0
        t2 == IF StartsWith(F_Plain, t1) THEN DropFirst(t1, 3) ELSE t1
        t3 == IF EndsWith(F_Plain, t2) THEN SubSeq(t2, 1, Len(t2) - 3)
              ELSE t2
    IN  Strip(t3)

\* src/agent/state_detector.py:187-210
CheckGoalCompletionOf(result) ==
    LET goal_data == JsonLoads(StripFences(result))
        completed == /\ Contains(W_goal_completed, Lower(result))
                     /\ Contains(W_true, Lower(result))
    IN  IF goal_data.ok
        THEN [how |-> "json", value |-> goal_data.value]
        ELSE [how |-> "fallback",
              value |-> JsonValue(IF completed THEN "true" ELSE "false",
                                  "absent", <<>>)]

\* src/agent/navigation_planner.py:108-131: a reply that json.loads rejects
\* is re-raised
GetNextActionOf(response) ==
    LET action == JsonLoads(StripFences(response))
    IN  IF action.ok
        THEN [how |-> "json", value |-> action.value]
        ELSE [how |-> "raise", value |-> NoValue]

\* the index of the "}" that closes the "{" at which depth 1 was entered,
\* looking from index i on; 0 when the braces do not balance
RECURSIVE ClosingBrace(_, _, _)
ClosingBrace(s, i, depth) ==
    IF i > Len(s) THEN 0
    ELSE IF s[i] = "{" THEN ClosingBrace(s, i + 1, depth + 1)
    ELSE IF s[i] = "}"
         THEN IF depth = 1 THEN i ELSE ClosingBrace(s, i + 1, depth - 1)
    ELSE ClosingBrace(s, i + 1, depth)

\* StateDetector._clean_json_like: the first balanced {...} of the reply,
\* the empty string when there is none
CleanJsonLike(s) ==
    LET opens == {i \in 1..Len(s) : s[i] = "{"}
        first == CHOOSE i \in opens : \A j \in opens : i <= j
        close == ClosingBrace(s, first + 1, 1)
    IN  IF opens = {} THEN <<>>
        ELSE IF close = 0 THEN <<>>
        ELSE SubSeq(s, first, close)

\* src/main.py:995-1010
ParseSuggestionOf(llm_response) ==
    LET cleaned == CleanJsonLike(llm_response)
        llm_suggestion == JsonLoads(cleaned)
    IN  IF cleaned = <<>> THEN [how |-> "nojson", value |-> NoValue]
        ELSE IF llm_suggestion.ok
             THEN [how |-> "json", value |-> llm_suggestion.value]
             ELSE [how |-> "badjson", value |-> NoValue]

InitParse ==
    /\ pc = "parse_ready"
    /\ arg \in ReplyTexts
    /\ ret = <<>>
    /\ IdleInit

\* detector.check_goal_completion parses the reply
RunCheckGoalCompletion ==
    /\ pc = "parse_ready"
    /\ ret' = Append(ret, CheckGoalCompletionOf(arg))
    /\ pc' = "parse_goal"
    /\ UNCHANGED <<arg, api_trace, retries, loopVars, iterVars, rlVars,
                   setupVars, verifyVars>>

\* NavigationPlanner.get_next_action parses the reply
RunGetNextAction ==
    /\ pc = "parse_goal"
    /\ ret' = Append(ret, GetNextActionOf(arg))
    /\ pc' = "parse_plan"
    /\ UNCHANGED <<arg, api_trace, retries, loopVars, iterVars, rlVars,
                   setupVars, verifyVars>>

\* main() parses the reply to its action query
RunParseSuggestion ==
    /\ pc = "parse_plan"
    /\ ret' = Append(ret, ParseSuggestionOf(arg))
    /\ pc' = "parse_done"
    /\ UNCHANGED <<arg, api_trace, retries, loopVars, iterVars, rlVars,
                   setupVars, verifyVars>>

NextParse == RunCheckGoalCompletion \/ RunGetNextAction \/ RunParseSuggestion

SpecParse == InitParse /\ [][NextParse]_vars

(***************************************************************************)
(* click_text_anywhere (src/main.py:163-336): locators in every frame,     *)
(* then the coordinate click.  `arg` holds the text and the number of      *)
(* frames of the page, `ret` the attempts made so far and, last, the       *)
(* returned value.                                                         *)
(***************************************************************************)
MaxFrames == 2

\* the centre of the element found by the fallback script, within its frame
Centre == 5

\* the x offset of the bounding box of the element that owns frame f; the
\* main frame (the first) is owned by no element
FrameOffset(f) == 10 * (f - 1)

PatternFactories_PartialFirst ==
    <<"partial_text", "exact_text", "button_role", "link_role">>

\* src/main.py:224-229
PatternFactories == <<"exact_text", "button_role", "link_role", "partial_text">>

Attempt(op, frame, strategy, result, x) ==
    [op |-> op, frame |-> frame, strategy |-> strategy, result |-> result,
     x |-> x]

\* loc.count() raised instead of returning a number
CountRaised == -1

\* src/main.py:182-217: try_locator, with the cases it distinguishes:
\* count is 0, 1, 2 or loc.count() raises; with several matches one of them
\* may match the text exactly and its click succeeds or raises; the click on
\* the first match succeeds or raises
TryLocator(count, exact, first) ==
    IF count = CountRaised THEN "raised"
    ELSE IF count = 0 THEN "no matches"
    ELSE IF count > 1 /\ exact = "clicked" THEN "clicked"
    ELSE IF first = "clicked" THEN "clicked"
    ELSE "raised"

\* src/main.py:234: if result.get("success"): return result
Succeeded(result) == result = "clicked"

InitClick ==
    /\ pc = "click_ready"
    /\ arg \in [text : {<<" ">>, T_SaveRaw}, frames : 1..MaxFrames]
    /\ ret = <<>>
    /\ IdleInit

\* src/main.py:168-170
EnterClickTextAnywhere ==
    /\ pc = "click_ready"
    /\ IF Strip(arg.text) = <<>>
       THEN /\ ret' = <<Attempt("return", 0, "empty text", "failed", 0)>>
            /\ pc' = "click_returned"
       ELSE /\ ret' = ret
            /\ pc' = "click_locators"
    /\ UNCHANGED <<arg, api_trace, retries, loopVars, iterVars, rlVars,
                   setupVars, verifyVars>>

\* src/main.py:231-238: one pass of the inner loop; the factory itself may
\* raise
LocatorAttempt ==
    /\ pc = "click_locators"
    /\ LET frame == (Len(ret) \div Len(PatternFactories)) + 1
           desc == PatternFactories[(Len(ret) % Len(PatternFactories)) + 1]
           last == Len(ret) + 1 = arg.frames * Len(PatternFactories)
       IN  \E factory \in {"ok", "raises"},
              count \in {CountRaised, 0, 1, 2},
              exact \in {"none", "clicked", "raised"},
              first \in {"clicked", "raised"} :
              LET result == IF factory = "raises" THEN "raised"
                            ELSE TryLocator(count, exact, first)
                  tried == Append(ret, Attempt("locator", frame, desc,
                                               result, 0))
              IN  IF Succeeded(result)
                  THEN /\ ret' = Append(tried, Attempt("return", frame, desc,
                                                       "success", 0))
                       /\ pc' = "click_returned"
                  ELSE /\ ret' = tried
                       /\ pc' = IF last THEN "click_fallback"
                                ELSE "click_locators"
    /\ UNCHANGED <<arg, api_trace, retries, loopVars, iterVars, rlVars,
                   setupVars, verifyVars>>

\* src/main.py:302-334: one pass of the fallback loop; after the last frame
\* the function returns "no elements found" (src/main.py:336)
FallbackAttempt ==
    /\ pc = "click_fallback"
    /\ LET frame == Len(ret) - arg.frames * Len(PatternFactories) + 1
       IN  IF frame > arg.frames
           THEN /\ ret' = Append(ret, Attempt("return", 0, "no elements found",
                                              "failed", 0))
                /\ pc' = "click_returned"
           ELSE \E evaluate \in {"raises", "null", "coords"},
                   owner \in {"box", "raises"},
                   mouse \in {"clicked", "raised"} :
                   LET offset_x == IF owner = "box" THEN FrameOffset(frame)
                                   ELSE 0
                       absolute_x == offset_x + Centre
                       result == IF evaluate = "coords" THEN mouse
                                 ELSE "no element"
                       tried == Append(ret,
                                  Attempt("mouse", frame, "fallback_mouse",
                                          result,
                                          IF Succeeded(result)
                                          THEN absolute_x ELSE 0))
                   IN  IF Succeeded(result)
                       THEN /\ ret' = Append(tried,
                                        Attempt("return", frame,
                                                "fallback_mouse", "success",
                                                absolute_x))
                            /\ pc' = "click_returned"
                       ELSE /\ ret' = tried
                            /\ pc' = "click_fallback"
    /\ UNCHANGED <<arg, api_trace, retries, loopVars, iterVars, rlVars,
                   setupVars, verifyVars>>

NextClick == EnterClickTextAnywhere \/ LocatorAttempt \/ FallbackAttempt

SpecClick == InitClick /\ [][NextClick]_vars

(***************************************************************************)
(* BrowserController.find_element, click and fill                          *)
(* (src/agent/browser_controller.py:17-37, 62-75, 295-312).  `arg` holds   *)
(* the operation and the description, `ret` the strategies tried, the      *)
(* element found, the returned result and whether the page was acted on.   *)
(***************************************************************************)
\* src/agent/browser_controller.py:19-29
FindStrategies ==
    <<"get_by_text", "get_by_role_button", "get_by_role_link",
      "get_by_placeholder", "get_by_label", "role_button_has_text",
      "button_has_text", "a_has_text", "aria_label">>

IsCandidate_AnyLocator(seen) == seen # "raises"

\* src/agent/browser_controller.py:33: if locator and locator.is_visible(...)
IsCandidate(seen) == seen = "visible"

InitFind ==
    /\ pc = "find_strategies"
    /\ arg \in [op : {"click", "fill"}, element_description : {T_Save, T_Title}]
    /\ ret = [tried |-> <<>>, el |-> None, result |-> "none",
              touched |-> FALSE]
    /\ IdleInit

\* src/agent/browser_controller.py:30-37: one pass of the loop over the
\* strategies; after the last strategy find_element returns None
StrategyAttempt ==
    /\ pc = "find_strategies"
    /\ LET k == Len(ret.tried) + 1
       IN  \E seen \in {"visible", "hidden", "raises"} :
              LET tried == Append(ret.tried, [strategy |-> FindStrategies[k],
                                              outcome |-> seen])
              IN  IF IsCandidate(seen)
                  THEN /\ ret' = [ret EXCEPT !.tried = tried, !.el = k]
                       /\ pc' = "find_returned"
                  ELSE /\ ret' = [ret EXCEPT !.tried = tried]
                       /\ pc' = IF k = Len(FindStrategies)
                                THEN "find_returned" ELSE "find_strategies"
    /\ UNCHANGED <<arg, api_trace, retries, loopVars, iterVars, rlVars,
                   setupVars, verifyVars>>

\* src/agent/browser_controller.py:62-75 (click) and 295-312 (fill): what
\* the caller does with the value of find_element
ClickOrFill ==
    /\ pc = "find_returned"
    /\ IF ret.el = None
       THEN ret' = [ret EXCEPT !.result =
                       IF arg.op = "click" THEN "Element not found"
                       ELSE "Input not found"]
       ELSE \E done \in {"success", "Timeout", "error"} :
                ret' = [ret EXCEPT !.result = done, !.touched = TRUE]
    /\ pc' = "find_done"
    /\ UNCHANGED <<arg, api_trace, retries, loopVars, iterVars, rlVars,
                   setupVars, verifyVars>>

NextFind == StrategyAttempt \/ ClickOrFill

SpecFind == InitFind /\ [][NextFind]_vars

(***************************************************************************)
(* DOM snapshots: DOMInspector.capture_snapshot and diff_snapshots, called *)
(* at src/main.py:816-818 and 1077-1085.  `arg` holds the elements         *)
(* captured before and after an action, `ret` the two snapshots and the    *)
(* deltas.                                                                 *)
(***************************************************************************)
MaxSnapshot == 2

\* the largest number of elements a delta reports
ReportLimit == 50

T_CreateTask == <<"C", "r", "e", "a", "t", "e", " ", "T", "a", "s", "k">>
T_TaskName == <<"T", "a", "s", "k", " ", "N", "a", "m", "e">>
T_Cancel == <<"C", "a", "n", "c", "e", "l">>
T_CancelBang == <<"C", "a", "n", "c", "e", "l", "!">>

InteractiveElement(kind, visibleText, ariaLabel, placeholder) ==
    [kind |-> kind, visibleText |-> visibleText, ariaLabel |-> ariaLabel,
     placeholder |-> placeholder]

E_CreateTask == InteractiveElement("button", T_CreateTask, <<>>, <<>>)
E_TaskName == InteractiveElement("input", <<>>, <<>>, T_TaskName)
E_Cancel == InteractiveElement("button", T_Cancel, <<>>, <<>>)
E_CancelBang == InteractiveElement("button", T_CancelBang, <<>>, <<>>)
E_CancelAria == InteractiveElement("button", T_Cancel, T_Cancel, <<>>)

InteractiveElements ==
    {E_CreateTask, E_TaskName, E_Cancel, E_CancelBang, E_CancelAria}

Captures(n) == UNION {[1..k -> InteractiveElements] : k \in 0..n}

\* the snapshots of the scenario: one button before the click, the button,
\* an input and a second button after it
ScenarioBefore == <<E_CreateTask>>
ScenarioAfter == <<E_CreateTask, E_TaskName, E_Cancel>>

\* the derived label: the first non-empty of the text fields
Label(el) ==
    IF el.visibleText # <<>> THEN el.visibleText
    ELSE IF el.ariaLabel # <<>> THEN el.ariaLabel
    ELSE el.placeholder

Fingerprint_NoSuffix(el, seen) ==
    [kind |-> el.kind, label |-> NormalizeTextForMatching(Label(el)),
     suffix |-> 0]

\* kind + ":" + normalize(label), followed on a collision by a counter: the
\* number of elements captured earlier under the same kind and label
Fingerprint(el, seen) ==
    [kind |-> el.kind, label |-> NormalizeTextForMatching(Label(el)),
     suffix |-> seen]

Keys(snapshot) == {snapshot[i].fp : i \in 1..Len(snapshot)}

\* snapshot[fp]
Lookup(snapshot, fp) ==
    LET i == CHOOSE i \in 1..Len(snapshot) : snapshot[i].fp = fp
    IN  snapshot[i].el

\* snapshot[fp] = el on an ordered mapping: a present key keeps its place
\* and takes the new value
Store(snapshot, fp, el) ==
    IF fp \in Keys(snapshot)
    THEN [i \in 1..Len(snapshot) |->
             IF snapshot[i].fp = fp THEN [fp |-> fp, el |-> el]
             ELSE snapshot[i]]
    ELSE Append(snapshot, [fp |-> fp, el |-> el])

\* the elements captured before position i under the kind and label of the
\* element at i
SeenBefore(elements, i) ==
    Cardinality({j \in 1..(i - 1) :
        /\ elements[j].kind = elements[i].kind
        /\ NormalizeTextForMatching(Label(elements[j]))
             = NormalizeTextForMatching(Label(elements[i]))})

\* capture(): the ordered mapping of the first n captured elements
RECURSIVE CaptureFirst(_, _)
CaptureFirst(elements, n) ==
    IF n = 0 THEN <<>>
    ELSE Store(CaptureFirst(elements, n - 1),
               Fingerprint(elements[n], SeenBefore(elements, n)),
               elements[n])

CaptureSnapshot(elements) == CaptureFirst(elements, Len(elements))

Content_VisibleTextOnly(el) == <<el.visibleText>>

\* the tracked text fields of an element
Content(el) == <<el.visibleText, el.ariaLabel, el.placeholder>>

\* the positions of `new` that the delta reports
Reported(old, new) ==
    {i \in 1..Len(new) :
        \/ new[i].fp \notin Keys(old)
        \/ /\ new[i].fp \in Keys(old)
           /\ Content(Lookup(old, new[i].fp)) # Content(new[i].el)}

\* the elements at the positions of idx, in the order of the snapshot
RECURSIVE ElementsAt(_, _, _)
ElementsAt(new, idx, i) ==
    IF i > Len(new) THEN <<>>
    ELSE IF i \in idx THEN <<new[i].el>> \o ElementsAt(new, idx, i + 1)
    ELSE ElementsAt(new, idx, i + 1)

\* diff(old, new): newOnly and changed, capped at the reporting limit
DiffSnapshots(old, new) ==
    LET all == ElementsAt(new, Reported(old, new), 1)
    IN  IF Len(all) > ReportLimit THEN SubSeq(all, 1, ReportLimit) ELSE all

InitSnap ==
    /\ pc = "snap_ready"
    /\ arg \in [before : Captures(MaxSnapshot), after : Captures(MaxSnapshot)]
               \cup {[before |-> ScenarioBefore, after |-> ScenarioAfter]}
    /\ ret = <<>>
    /\ IdleInit

\* src/main.py:816-818 and 1081: the snapshot before and the snapshot after
RunCaptureSnapshot ==
    /\ pc = "snap_ready"
    /\ ret' = [before |-> CaptureSnapshot(arg.before),
               after |-> CaptureSnapshot(arg.after),
               delta |-> <<>>, same |-> <<>>]
    /\ pc' = "snap_captured"
    /\ UNCHANGED <<arg, api_trace, retries, loopVars, iterVars, rlVars,
                   setupVars, verifyVars>>

\* src/main.py:1082-1083: the delta of the two snapshots, and the delta of
\* the new snapshot against itself
RunDiffSnapshots ==
    /\ pc = "snap_captured"
    /\ ret' = [ret EXCEPT !.delta = DiffSnapshots(ret.before, ret.after),
                          !.same = DiffSnapshots(ret.after, ret.after)]
    /\ pc' = "snap_diffed"
    /\ UNCHANGED <<arg, api_trace, retries, loopVars, iterVars, rlVars,
                   setupVars, verifyVars>>

NextSnap == RunCaptureSnapshot \/ RunDiffSnapshots

SpecSnap == InitSnap /\ [][NextSnap]_vars







(***************************************************************************)
(* Loop detection over consecutive iterations (src/main.py:1029-1046,      *)
(* 1102-1107, 1121-1136, 1601-1641).  An iteration is reduced to its       *)
(* decided intent and the record it appends; ret lists what each iteration *)
(* did with its intent.                                                    *)
(***************************************************************************)
\* iterations explored
MaxLoopSteps == 7

\* the intents decided in the explored iterations
LoopIntents ==
    {<<"click", T_Save>>, <<"click", T_Title>>, <<"fill", T_Save>>}

\* result texts of an executed click of T_Save, of any other click, of a fill
LoopClickResults(t) ==
    IF t = T_Save
    THEN {ClickResultText("locator", 1, FALSE),
          ClickResultText("locator", 0, TRUE)}
    ELSE {ClickResultText("no elements found", 0, FALSE)}

InitLoop ==
    /\ pc = "loop_ready"
    /\ arg = <<>>
    /\ ret = <<>>
    /\ IdleInit

\* src/main.py:808-811, 1029-1046, 1102-1136: an iteration that decided a
\* click
ClickIteration ==
    /\ pc = "loop_ready"
    /\ step_count < MaxLoopSteps
    /\ step_count' = step_count + 1
    /\ \E t \in {i[2] : i \in {j \in LoopIntents : j[1] = "click"}} :
          /\ event' = "click"
          /\ text' = t
          /\ IF LoopDetected(action_history, t)
             THEN /\ action_history' = Append(action_history,
                        Record(step_count', "click", t,
                               "loop_detected - skipping"))
                  /\ ret' = Append(ret, "skipped")
             ELSE /\ \E r \in LoopClickResults(t) :
                        action_history' = Append(action_history,
                            Record(step_count', "click", t, r))
                  /\ ret' = Append(ret, "clicked")
    /\ UNCHANGED <<pc, arg, api_trace, retries, goal_reached, limit_reported,
                   dom_snapshot_before, page_gen, previous_screenshot_path,
                   shot, last_llm_suggestion, reuse_previous_instruction,
                   duplicate_screenshot, goal_check, iterVars, rlVars,
                   setupVars, verifyVars>>

\* src/main.py:808-811, 1143, 1601-1641: an iteration that decided a fill
FillIteration ==
    /\ pc = "loop_ready"
    /\ step_count < MaxLoopSteps
    /\ step_count' = step_count + 1
    /\ \E t \in {i[2] : i \in {j \in LoopIntents : j[1] = "fill"}} :
          /\ event' = "fill"
          /\ text' = t
          /\ action_history' = Append(action_history,
                Record(step_count', "fill", t, FillResultText("success", 0)))
          /\ ret' = Append(ret, "filled")
    /\ UNCHANGED <<pc, arg, api_trace, retries, goal_reached, limit_reported,
                   dom_snapshot_before, page_gen, previous_screenshot_path,
                   shot, last_llm_suggestion, reuse_previous_instruction,
                   duplicate_screenshot, goal_check, iterVars, rlVars,
                   setupVars, verifyVars>>

NextLoop ==
    \/ ClickIteration
    \/ FillIteration

SpecLoop == InitLoop /\ [][NextLoop]_vars

(***************************************************************************)
(* manual_login_handoff on its own (src/main.py:72-111, 584-592): the      *)
(* login check found that a login is needed; arg lists the replies of the  *)
(* oracle to the verification queries.                                     *)
(***************************************************************************)
InitHandoff ==
    /\ pc = "handoff"
    /\ arg \in [1..LoginRetries -> HandoffReplies]
    /\ ret = <<>>
    /\ IdleInit

NextHandoff ==
    \/ ManualLoginHandoff
    \/ ProceedToSteps

\* the operations of main() are steps of one thread: a step that can be
\* taken is taken
SpecHandoff == InitHandoff /\ [][NextHandoff]_vars /\ WF_vars(NextHandoff)

(***************************************************************************)
(* resolve_next_action (src/utils/action_resolver.py).  Step indexes are   *)
(* 0-based as in the source; a similarity is the pair <<2 * M, T>> of the  *)
(* ratio 2.0 * M / T of difflib.SequenceMatcher, and min_similarity is     *)
(* counted in hundredths.                                                  *)
(***************************************************************************)
\* longest list of documented steps explored
MaxDocSteps == 3

\* src/utils/action_resolver.py:61-62
verbs_click ==
    {<<"c", "l", "i", "c", "k">>, <<"o", "p", "e", "n">>,
     <<"s", "e", "l", "e", "c", "t">>, <<"c", "h", "o", "o", "s", "e">>,
     <<"p", "r", "e", "s", "s">>, <<"n", "e", "w">>,
     <<"c", "r", "e", "a", "t", "e">>, <<"a", "d", "d">>}
verbs_fill ==
    {<<"e", "n", "t", "e", "r">>, <<"t", "y", "p", "e">>,
     <<"f", "i", "l", "l">>, <<"s", "e", "t">>, <<"n", "a", "m", "e">>,
     <<"t", "i", "t", "l", "e">>,
     <<"d", "e", "s", "c", "r", "i", "p", "t", "i", "o", "n">>}

\* the documented steps explored: one with a click verb, one with a fill
\* verb, one with neither
DocStepTexts == {<<"A", "d", "d">>, <<"s", "e", "t">>, <<"o", "k">>}

\* a button or link of extract_interactive_elements
Button(t, a, h) ==
    [text |-> t, aria_label |-> a, title |-> <<>>, href |-> h, id |-> <<>>]

\* an input of extract_interactive_elements
Input(l, p) ==
    [label |-> l, placeholder |-> p, name |-> <<>>, id |-> <<>>,
     aria_label |-> <<>>]

\* the button lists and input lists of the explored pages
DomButtons ==
    {<<>>,
     <<Button(<<"a", "d", "d">>, <<>>, <<>>)>>,
     <<Button(<<>>, <<>>, <<>>), Button(<<>>, <<"O", "k">>, <<>>)>>,
     <<Button(<<>>, <<>>, <<"a", "d">>),
       Button(<<"a", "d", "d">>, <<"o", "k">>, <<>>)>>}
DomInputs ==
    {<<>>,
     <<Input(<<"s", "e", "t">>, <<>>)>>,
     <<Input(<<>>, <<"s", "a", "t">>), Input(<<"a", "d">>, <<>>)>>}

MinSimilarities == {0, 55, 100}

\* src/utils/action_resolver.py:9-18
BestLabelForButton(btn) ==
    IF btn.text # <<>> THEN btn.text
    ELSE IF btn.aria_label # <<>> THEN btn.aria_label
    ELSE IF btn.title # <<>> THEN btn.title
    ELSE IF btn.href # <<>> THEN btn.href
    ELSE IF btn.id # <<>> THEN btn.id
    ELSE <<>>

\* src/utils/action_resolver.py:21-26
BestLabelForInput(inp) ==
    IF inp.label # <<>> THEN inp.label
    ELSE IF inp.placeholder # <<>> THEN inp.placeholder
    ELSE IF inp.name # <<>> THEN inp.name
    ELSE IF inp.id # <<>> THEN inp.id
    ELSE IF inp.aria_label # <<>> THEN inp.aria_label
    ELSE <<>>

\* the common blocks of a and b: a[i .. i+k-1] = b[j .. j+k-1]
CommonBlocks(a, b) ==
    {m \in (1..Len(a)) \X (1..Len(b)) \X (1..Len(a)) :
        /\ m[1] + m[3] - 1 <= Len(a)
        /\ m[2] + m[3] - 1 <= Len(b)
        /\ SubSeq(a, m[1], m[1] + m[3] - 1) = SubSeq(b, m[2], m[2] + m[3] - 1)}

\* SequenceMatcher.find_longest_match: the longest block, the earliest in a
\* and then the earliest in b among the longest
LongestMatch(a, b) ==
    CHOOSE m \in CommonBlocks(a, b) :
        \A o \in CommonBlocks(a, b) :
            \/ m[3] > o[3]
            \/ m[3] = o[3] /\ m[1] < o[1]
            \/ m[3] = o[3] /\ m[1] = o[1] /\ m[2] <= o[2]

\* SequenceMatcher.get_matching_blocks: the characters matched, the longest
\* block first and then the pieces left and right of it
RECURSIVE Matched(_, _)
Matched(a, b) ==
    IF CommonBlocks(a, b) = {} THEN 0
    ELSE LET m == LongestMatch(a, b)
         IN  m[3]
             + Matched(SubSeq(a, 1, m[1] - 1), SubSeq(b, 1, m[2] - 1))
             + Matched(SubSeq(a, m[1] + m[3], Len(a)),
                       SubSeq(b, m[2] + m[3], Len(b)))

\* src/utils/action_resolver.py:29-30: _similarity, as <<2 * M, T>>
Similarity(a, b) ==
    IF Len(a) + Len(b) = 0 THEN <<1, 1>>
    ELSE <<2 * Matched(Lower(a), Lower(b)), Len(a) + Len(b)>>

\* s > t and s >= t / 100 on similarities
Above(s, t) == s[1] * t[2] > t[1] * s[2]
AtLeast(s, hundredths) == s[1] * 100 >= hundredths * s[2]

\* best = (0.0, None, "")
NoBest == [score |-> <<0, 1>>, found |-> FALSE, label |-> <<>>]

\* src/utils/action_resolver.py:66-73, 83-90: the loop over the labels
RECURSIVE BestMatch(_, _, _)
BestMatch(step_text, labels, best) ==
    IF labels = <<>> THEN best
    ELSE LET label == labels[1]
             score == Similarity(step_text, label)
         IN  IF label # <<>> /\ Above(score, best.score)
             THEN BestMatch(step_text, Tail(labels),
                            [score |-> score, found |-> TRUE,
                             label |-> label])
             ELSE BestMatch(step_text, Tail(labels), best)

\* the value None of the action
NoAction == [action |-> "none", element_description |-> <<>>]

\* src/utils/action_resolver.py:64-80: choose_best_button (the reason text
\* of the action is left out)
ChooseBestButton(step_text, dom, min_similarity) ==
    LET best == BestMatch(step_text,
                    [i \in 1..Len(dom.buttons) |->
                        BestLabelForButton(dom.buttons[i])], NoBest)
    IN  IF best.found /\ AtLeast(best.score, min_similarity)
        THEN [action |-> "click", element_description |-> best.label]
        ELSE NoAction

\* src/utils/action_resolver.py:82-99: choose_best_input
ChooseBestInput(step_text, dom, min_similarity) ==
    LET best == BestMatch(step_text,
                    [i \in 1..Len(dom.inputs) |->
                        BestLabelForInput(dom.inputs[i])], NoBest)
    IN  IF best.found /\ AtLeast(best.score, min_similarity)
        THEN [action |-> "fill", element_description |-> best.label]
        ELSE NoAction

Smaller(a, b) == IF a < b THEN a ELSE b

NextStepIndex_Unclamped(i, n) == i + 1

\* min(doc_step_index + 1, len(doc_steps) - 1)
NextStepIndex(i, n) == Smaller(i + 1, n - 1)

\* any(v in step_text.lower() for v in verbs)
HasVerb(step_text, verbs) == \E v \in verbs : Contains(v, Lower(step_text))

\* src/utils/action_resolver.py:101-124: the action matched to the step
\* itself, with the index returned with it
MatchStep(step_text, dom, i, n, min_similarity) ==
    LET button == ChooseBestButton(step_text, dom, min_similarity)
        input == ChooseBestInput(step_text, dom, min_similarity)
    IN  IF HasVerb(step_text, verbs_fill) /\ ~HasVerb(step_text, verbs_click)
        THEN IF input # NoAction
             THEN [action |-> input, index |-> NextStepIndex(i, n)]
             ELSE [action |-> button, index |-> i]
        ELSE IF button # NoAction
             THEN [action |-> button, index |-> NextStepIndex(i, n)]
             ELSE [action |-> input, index |-> i]

\* src/utils/action_resolver.py:33-134
RECURSIVE ResolveNextAction(_, _, _, _)
ResolveNextAction(doc_steps, dom, doc_step_index, min_similarity) ==
    IF doc_steps = <<>>
    THEN [action |-> NoAction, index |-> doc_step_index]
    ELSE LET n == Len(doc_steps)
             i == IF doc_step_index >= n THEN n - 1 ELSE doc_step_index
             here == MatchStep(doc_steps[i + 1], dom, i, n, min_similarity)
             idx1 == Smaller(i + 1, n - 1)
             idx2 == Smaller(i + 2, n - 1)
         IN  IF here.action # NoAction THEN here
             ELSE IF idx1 = i THEN [action |-> NoAction, index |-> i]
             ELSE LET nxt1 == ResolveNextAction(doc_steps, dom, idx1,
                                                min_similarity).action
                  IN  IF nxt1 # NoAction
                      THEN [action |-> nxt1, index |-> idx1]
                      ELSE LET nxt2 == ResolveNextAction(doc_steps, dom,
                                          idx2, min_similarity).action
                           IN  IF nxt2 # NoAction
                               THEN [action |-> nxt2, index |-> idx2]
                               ELSE [action |-> NoAction, index |-> i]

InitResolve ==
    /\ pc = "resolve_ready"
    /\ arg \in [doc_steps : UNION {[1..k -> DocStepTexts] :
                                      k \in 0..MaxDocSteps},
                dom : [buttons : DomButtons, inputs : DomInputs],
                doc_step_index : 0..MaxDocSteps,
                min_similarity : MinSimilarities]
    /\ ret = <<>>
    /\ IdleInit

RunResolveNextAction ==
    /\ pc = "resolve_ready"
    /\ ret' = ResolveNextAction(arg.doc_steps, arg.dom, arg.doc_step_index,
                                arg.min_similarity)
    /\ pc' = "resolve_done"
    /\ UNCHANGED <<arg, api_trace, retries, loopVars, iterVars, rlVars,
                   setupVars, verifyVars>>

NextResolve == RunResolveNextAction

SpecResolve == InitResolve /\ [][NextResolve]_vars

(***************************************************************************)
(* fill_script (src/main.py:1158-1545).  A page is the list of the         *)
(* elements querySelectorAll returns, in document order; an element        *)
(* records its tag and type, whether it is rendered (offsetParent), the    *)
(* labels getLabelsForElement collects for it, and its value.              *)
(***************************************************************************)
\* longest page explored
MaxFields == 3

T_TitleBang == <<"T", "i", "t", "l", "e", "!">>
T_Name4 == <<"N", "a", "m", "e">>
T_TestValue == <<"T", "e", "s", "t">>

Field(tag, type, rendered, labels) ==
    [tag |-> tag, type |-> type, rendered |-> rendered, labels |-> labels,
     value |-> <<>>]

\* the elements a page is made of
Fields ==
    {Field("INPUT", "text", TRUE, <<T_Title>>),
     Field("TEXTAREA", "textarea", TRUE, <<T_Name4, T_TitleBang>>),
     Field("INPUT", "text", FALSE, <<T_Title>>),
     Field("INPUT", "submit", TRUE, <<T_Title>>),
     Field("INPUT", "text", TRUE, <<T_Name4>>)}

FillPages == UNION {[1..n -> Fields] : n \in 1..MaxFields}

\* src/main.py:1304-1328: isFillable
IsFillable(el) ==
    \/ el.tag = "INPUT" /\ el.type \notin {"hidden", "submit", "button"}
    \/ el.tag = "TEXTAREA"

\* src/main.py:1360-1373: a label matches the label asked for
LabelMatches(label, labelText) ==
    LET labelNormalized == NormalizeTextForMatching(label)
        targetNormalized == NormalizeTextForMatching(labelText)
    IN  /\ label # <<>>
        /\ \/ labelNormalized = targetNormalized
           \/ Contains(targetNormalized, labelNormalized)
           \/ Contains(labelNormalized, targetNormalized)

\* src/main.py:1337-1340, 1359-1374: the element is a candidate
FillMatches(el, labelText) ==
    /\ IsFillable(el)
    /\ el.rendered
    /\ \E i \in 1..Len(el.labels) : LabelMatches(el.labels[i], labelText)

\* src/main.py:1336-1382: targetElement after the forEach, 0 for null; each
\* matching element is assigned in turn
FillTarget(page, labelText) ==
    IF \E i \in 1..Len(page) : FillMatches(page[i], labelText)
    THEN CHOOSE i \in 1..Len(page) :
            /\ FillMatches(page[i], labelText)
            /\ \A j \in (i + 1)..Len(page) : ~FillMatches(page[j], labelText)
    ELSE 0

\* src/main.py:1384-1545: the page after the script, with its result
FillScript(page, labelText, valueToEnter) ==
    LET target == FillTarget(page, labelText)
    IN  [success |-> target # 0,
         page |-> [i \in 1..Len(page) |->
                      IF i = target
                      THEN [page[i] EXCEPT !.value = valueToEnter]
                      ELSE page[i]]]

InitFill ==
    /\ pc = "fill_ready"
    /\ arg \in [page : FillPages, labelText : {T_Title},
                valueToEnter : {T_TestValue}]
    /\ ret = <<>>
    /\ IdleInit

RunFillScript ==
    /\ pc = "fill_ready"
    /\ ret' = FillScript(arg.page, arg.labelText, arg.valueToEnter)
    /\ pc' = "fill_done"
    /\ UNCHANGED <<arg, api_trace, retries, loopVars, iterVars, rlVars,
                   setupVars, verifyVars>>

NextFill == RunFillScript

SpecFill == InitFill /\ [][NextFill]_vars

(***************************************************************************)
(* Properties of the Stepping loop                                         *)
(***************************************************************************)
\* the records that existed when the current iteration began
PriorHistory == SubSeq(action_history, 1, iter_hist0)

\* number of records among the last 5 of h with the pair (e, t)
SamePairCount(h, e, t) ==
    Cardinality({i \in 1..Len(LastN(h, 5)) :
                    /\ LastN(h, 5)[i].action = e
                    /\ LastN(h, 5)[i].target = t})

\* the records appended in iteration k
RecordsOfStep(k) ==
    {i \in 1..Len(action_history) : action_history[i].step = k}

\* the run left the Stepping loop
LoopLeft == pc \in {"final", "crashed"} /\ step_count >= 1

\* C1: the Stepping loop runs at most max_steps iterations, the step counter
\* advances by one per iteration, and when the loop is left exactly one of
\* the verdicts GoalReached (goal_reached) and StepBudgetExhausted (the
\* 'Reached maximum step limit' branch) holds.
C1_LoopEndsInOneVerdict ==
    /\ step_count <= max_steps
    /\ Len(issued) = step_count
    /\ LoopLeft => \/ goal_reached /\ ~limit_reported
                   \/ ~goal_reached /\ limit_reported

\* C2: in an iteration whose goal check reports goal_completed the loop goes
\* to GoalReached with no action query, no click or fill and no new record.
C2_GoalCheckBeforeAction ==
    goal_check.goal_completed =>
        /\ pc = "final"
        /\ goal_reached
        /\ ~iter_query
        /\ iter_exec = "none"
        /\ issued[step_count] = NoSuggestion
        /\ Len(action_history) = iter_hist0

\* C2 witness: the goal is reported complete after an earlier iteration
\* appended a record.
C2_Witness ==
    /\ goal_check.goal_completed
    /\ pc = "final"
    /\ step_count >= 2
    /\ Len(action_history) >= 1

\* C3: whenever the intent about to be executed (click or fill) has a pair
\* (event, target) that appears at least twice among the last 5 records, the
\* action is not executed and the cached intent is discarded, and the
\* iteration after such a skip queries the oracle.
C3_LoopDetectionEveryIntent ==
    /\ ( /\ pc \in {"iter_end", "continue"}
         /\ outcome \in {"executed", "loop_skip", "no_ui_change"}
         /\ event \in {"click", "fill"}
         /\ SamePairCount(PriorHistory, event, text) >= 2 )
       => (iter_exec = "none" /\ ~last_llm_suggestion.present)
    /\ (prev_outcome = "loop_skip" /\ pc = "execute") => iter_query

\* iteration k has run its executor stage
Executed(k) == k < step_count \/ pc \in {"iter_end", "continue", "loop_head", "final"}

\* C4: when the same click intent is issued in three consecutive iterations,
\* the first two each append one record for it and the third is skipped
\* before click_text_anywhere is called.
C4_ThirdClickSkipped ==
    \A k \in 3..step_count :
        ( /\ issued[k].present
          /\ issued[k].event = "click"
          /\ issued[k - 1] = issued[k]
          /\ issued[k - 2] = issued[k]
          /\ Executed(k) )
        => /\ \A j \in {k - 2, k - 1, k} :
                 /\ Cardinality(RecordsOfStep(j)) = 1
                 /\ \A i \in RecordsOfStep(j) :
                       /\ action_history[i].action = "click"
                       /\ action_history[i].target = issued[k].text
           /\ \A i \in RecordsOfStep(k) :
                 action_history[i].result = "loop_detected - skipping"
           /\ (k = step_count /\ pc \in {"iter_end", "continue"})
                 => iter_exec = "none"

\* C4 witness: click Save was issued in iterations 1, 2 and 3 and the third
\* was skipped.
C4_Witness ==
    /\ step_count = 3
    /\ pc = "continue"
    /\ outcome = "loop_skip"
    /\ issued = <<Suggestion("click", T_Save), Suggestion("click", T_Save),
                  Suggestion("click", T_Save)>>

\* the reasoning text contains "click" or "select"
SaysClickOrSelect(r) ==
    r.isstr /\ (Contains(W_click, r.s) \/ Contains(W_select, r.s))

\* C5: when the screenshot equals the previous one, the cached intent is a
\* fill and the verifier's reasoning contains "click" or "select", the
\* iteration does not reuse the fill and issues a fresh action query.
C5_FillNotReusedWhenClickSuggested ==
    [][ ( /\ pc = "decide"
          /\ duplicate_screenshot
          /\ last_llm_suggestion.present
          /\ last_llm_suggestion.event = "fill"
          /\ SaysClickOrSelect(goal_check.reasoning) )
        => /\ ~reuse_previous_instruction
           /\ ~reuse_previous_instruction'
           /\ iter_query'
           /\ api_trace' = <<"wait_if_needed", "generate_content">> ]_vars

\* C5 witness: a fresh query was issued although the screenshot was a
\* duplicate, because the reasoning mentioned a click.
C5_Witness ==
    /\ pc \in {"execute", "continue"}
    /\ duplicate_screenshot
    /\ SaysClickOrSelect(goal_check.reasoning)
    /\ iter_query
    /\ step_count >= 2
    /\ action_history # <<>>
    /\ action_history[Len(action_history)].action = "fill"
    /\ action_history[Len(action_history)].step = step_count - 1

\* C6: the cached intent is reused only in an iteration whose screenshot
\* equals the previous one and while a cached intent exists; every other
\* iteration (the first one, the one after a loop-detection skip or a
\* 'no UI change' click) queries the oracle; a reusing iteration issues no
\* action query.
C6_ReuseOnlyOnDuplicate ==
    [][ pc = "decide" =>
          /\ reuse_previous_instruction' =>
                /\ duplicate_screenshot
                /\ last_llm_suggestion.present
                /\ ~iter_query'
                /\ api_trace' = api_trace
                /\ pc' = "execute"
                /\ event' = last_llm_suggestion.event
                /\ text' = last_llm_suggestion.text
          /\ ~reuse_previous_instruction' => iter_query'
          /\ ~(duplicate_screenshot /\ last_llm_suggestion.present)
                => iter_query'
          /\ (step_count = 1 \/ prev_outcome \in {"loop_skip", "no_ui_change"})
                => iter_query' ]_vars

\* C6 witness: an iteration that reused the cached intent.
C6_Witness ==
    /\ pc = "execute"
    /\ reuse_previous_instruction
    /\ duplicate_screenshot
    /\ ~iter_query
    /\ event = "click"

\* C9: every generate_content request is preceded by a wait_if_needed call.
C9_EveryRequestThrottled ==
    \A i \in 1..Len(api_trace) :
        api_trace[i] = "generate_content"
        => \E j \in 1..(i - 1) : api_trace[j] = "wait_if_needed"

\* results that mark the action as failed
MarkedFailed(r) ==
    r \in {"failed - no elements found", "failed - no UI change detected",
           "failed - fillable element not found", "error - exception"}

\* the record appended in the current iteration
NewRecord == action_history[Len(action_history)]

C11_NoOracleReplyCrashesLoop ==
    pc = "crashed" => step_count = 0

\* the ways an action reply yields no intent
ParseSkips == {"parse_skip", "invalid_skip"}

\* C12: a step whose action reply cannot be parsed, or has an empty event or
\* text, executes nothing and appends no record, and the step after it
\* obtains its intent from a fresh action query.
C12_ParseFailureRetriedFresh ==
    /\ (pc = "continue" /\ outcome \in ParseSkips)
          => (iter_exec = "none" /\ Len(action_history) = iter_hist0)
    /\ (prev_outcome \in ParseSkips /\ pc = "execute") => iter_query

\* results of an action whose element was not found
NotFoundResults ==
    {"failed - no elements found", "failed - fillable element not found"}

\* C13: a click or fill that finds no matching element appends a failed
\* record, and the step after it obtains its intent from a fresh action
\* query instead of executing the cached intent again.
C13_NotFoundRetriedFresh ==
    /\ iter_failure = "not_found"
          => /\ Len(action_history) = iter_hist0 + 1
             /\ NewRecord.result \in NotFoundResults
    /\ ( /\ pc = "execute"
         /\ action_history # <<>>
         /\ NewRecord.step = step_count - 1
         /\ NewRecord.result \in NotFoundResults )
       => iter_query

\* the login check has reached its verdict
LoginDecided == pc \in {"handoff", "login_done"}

\* C14: logged-in signals only give "logged in", login-required signals only
\* give "login required", and with both kinds of signal or none the oracle
\* is asked and its answer is the verdict.
C14_LoginVerdictPolicy ==
    LoginDecided =>
        /\ (logged_in_indicators # {} /\ login_required_indicators = {})
              => ~needs_login
        /\ (login_required_indicators # {} /\ logged_in_indicators = {})
              => needs_login
        /\ ((logged_in_indicators # {}) <=> (login_required_indicators # {}))
              => /\ login_response # "none"
                 /\ login_response = "login_page" => needs_login
                 /\ login_response = "not_login_page" => ~needs_login

\* C15: when the oracle is asked during the login check and the request
\* fails or its reply cannot be parsed, the verdict is "no login required"
\* and the manual login handoff is not invoked.
C15_LoginOracleFailureMeansNoLogin ==
    (LoginDecided /\ login_response \in {"error_text", "unparseable"})
        => (~needs_login /\ pc # "handoff")

\* ensure_navigate is running or has just returned
Navigating == pc \in {"nav_attempt", "nav_manual", "nav_returned"}

\* C16: ensure_navigate tries domcontentloaded/30 s, load/45 s and
\* networkidle/60 s, in this order, on the target URL and then on each
\* alternate URL, stops at the first success, shows the manual prompt only
\* after all 3 + 3 x (number of alternate URLs) attempts failed, and returns
\* False only when the page is then at an empty or about:blank URL.
C16_NavigationEscalatesInOrder ==
    Navigating =>
        LET n == Len(nav_log)
            total == 3 + 3 * Len(AltUrls(nav_url))
        IN
        /\ n <= total
        /\ \A i \in 1..n :
              /\ nav_log[i].url =
                    IF i <= 3 THEN nav_url
                    ELSE AltUrls(nav_url)[((i - 4) \div 3) + 1]
              /\ nav_log[i].wait_until =
                    CASE i % 3 = 1 -> "domcontentloaded"
                      [] i % 3 = 2 -> "load"
                      [] OTHER -> "networkidle"
              /\ nav_log[i].timeout =
                    CASE i % 3 = 1 -> 30000
                      [] i % 3 = 2 -> 45000
                      [] OTHER -> 60000
              /\ i < n => ~nav_log[i].success
              /\ (i < n /\ i % 3 # 0)
                    => nav_log[i].timeout <= nav_log[i + 1].timeout
        /\ (n >= 1 /\ nav_log[n].success)
              => (nav_result = "True" /\ pc = "nav_returned" /\ ~nav_prompted)
        /\ (nav_prompted \/ pc = "nav_manual")
              => (n = total /\ \A i \in 1..n : ~nav_log[i].success)
        /\ nav_result = "True"
              => \/ n >= 1 /\ nav_log[n].success
                 \/ nav_prompted /\ nav_cur_url # <<>>
                    /\ ~InUrl("about:blank", nav_cur_url)
        /\ nav_result = "False"
              => /\ nav_prompted
                 /\ nav_cur_url = <<>> \/ InUrl("about:blank", nav_cur_url)

\* C16 witness: every automatic attempt on a linear.app URL failed and the
\* manual fallback left the page at about:blank.
C16_Witness ==
    /\ pc = "nav_returned"
    /\ nav_result = "False"
    /\ nav_prompted
    /\ Len(nav_log) = 12
    /\ nav_cur_url = U_Blank

\* C17: when ensure_navigate returns False the run is Aborted: no login
\* check, no iteration, no query of the goal verifier or for an action, no
\* click and no fill.
C17_NavigationFailureAborts ==
    nav_failed =>
        /\ pc = "aborted"
        /\ step_count = 0
        /\ issued = <<>>
        /\ logged_in_indicators = {} /\ login_required_indicators = {}
        /\ login_response = "none" /\ ~needs_login
        /\ api_trace = TaskParserOps
        /\ ~iter_query
        /\ goal_check = NoGoalCheck
        /\ iter_exec = "none"
        /\ action_history = <<>>
        /\ page_gen = 0

\* C17 witness: the run was aborted after navigation failed.
C17_Witness == nav_failed /\ pc = "aborted"

\* ASCII letters and digits
AsciiAlnum ==
    {"a", "b", "c", "d", "e", "f", "g", "h", "i", "j", "k", "l", "m", "n",
     "o", "p", "q", "r", "s", "t", "u", "v", "w", "x", "y", "z",
     "A", "B", "C", "D", "E", "F", "G", "H", "I", "J", "K", "L", "M", "N",
     "O", "P", "Q", "R", "S", "T", "U", "V", "W", "X", "Y", "Z",
     "0", "1", "2", "3", "4", "5", "6", "7", "8", "9"}

\* a cleaned target: not empty, only ASCII letters, digits and single
\* spaces, no space at either end
IsCleanText(t) ==
    /\ t # <<>>
    /\ \A i \in 1..Len(t) : t[i] \in AsciiAlnum \cup {" "}
    /\ t[1] # " " /\ t[Len(t)] # " "
    /\ \A i \in 1..(Len(t) - 1) : ~(t[i] = " " /\ t[i + 1] = " ")

\* a non-empty lower-case event name
IsLowerEvent(e) == e # "" /\ e \notin {"CLICK", "Fill"}

\* C18: the target text handed to the click or fill executor, fresh or
\* reused, is cleaned, and the cached intent is absent or has a non-empty
\* lower-case event and a cleaned text.
C18_TargetsAreCleaned ==
    /\ (pc = "execute" \/ iter_exec # "none")
          => (IsCleanText(text) /\ IsLowerEvent(event))
    /\ last_llm_suggestion.present
          => /\ IsLowerEvent(last_llm_suggestion.event)
             /\ IsCleanText(last_llm_suggestion.text)

\* C18 witness: a click was executed with an intent reused from the cache.
C18_Witness ==
    /\ iter_exec = "click"
    /\ ~iter_query
    /\ reuse_previous_instruction
    /\ text = T_Save
    /\ last_llm_suggestion = Suggestion("click", T_Save)

\* C19: the action history only grows by appending: existing records are
\* kept as they are, an iteration appends at most one record (with its own
\* step number), there are never more records than steps, and the step
\* numbers of the records are strictly increasing.
C19_HistoryAppendOnly ==
    /\ [](/\ Len(action_history) <= step_count
          /\ \A i \in 1..Len(action_history) :
                /\ action_history[i].step \in 1..step_count
                /\ i > 1 => action_history[i - 1].step < action_history[i].step)
    /\ [][ \/ action_history' = action_history
           \/ /\ Len(action_history') = Len(action_history) + 1
              /\ SubSeq(action_history', 1, Len(action_history))
                    = action_history
              /\ action_history'[Len(action_history')].step = step_count
              /\ step_count' = step_count ]_vars

\* C19 witness: three iterations appended one record each.
C19_Witness ==
    /\ Len(action_history) = 3
    /\ step_count = 3
    /\ \A i \in 1..3 : action_history[i].step = i

\* the prompt context of the current iteration has been built
ContextBuilt == pc \in {"ctx_built", "decide"}

\* C20: the prompt context lists at most the last 10 records one by one (at
\* most the last 5 when the context text is longer than 2000 characters),
\* and names no record older than the 10 most recent.
C20_ContextWindowBounded ==
    ContextBuilt =>
        LET n == Len(action_history) IN
        /\ Cardinality(context_listed) <= 10
        /\ \A i \in context_listed \cup context_mentioned :
              i \in 1..n /\ i > n - 10
        /\ ContextLen(action_history) > 2000
              => /\ Cardinality(context_listed) <= 5
                 /\ \A i \in context_listed : i > n - 5

\* C20 witness: a history of 12 records whose context was too long and was
\* cut down to the last 5.
C20_Witness ==
    /\ pc = "ctx_built"
    /\ Len(action_history) = 12
    /\ context_summarized
    /\ context_listed = 8..12

\* C30: a click that was dispatched and after which no new element was
\* detected is recorded as "failed - no UI change detected", with the cached
\* intent cleared, only when the verification screenshot is identical to the
\* screenshot of the step; otherwise it is recorded as a success with 0 new
\* elements.
C30_ZeroChangeClickVerified ==
    (pc \in {"iter_end", "continue"} /\ iter_exec = "click" /\ new_count = 0)
        => /\ Len(action_history) = iter_hist0 + 1
           /\ IF current_check # None /\ current_check = shot
              THEN /\ NewRecord.result = "failed - no UI change detected"
                   /\ ~last_llm_suggestion.present
                   /\ pc = "continue"
              ELSE /\ NewRecord.result = "success - 0 new elements"
                   /\ last_llm_suggestion.present
                   /\ pc = "iter_end"

\* C30 witness: a click with no detected change whose verification
\* screenshot differs from the screenshot of the step.
C30_Witness ==
    /\ pc = "iter_end"
    /\ iter_exec = "click"
    /\ new_count = 0
    /\ current_check # None
    /\ current_check # shot
    /\ NewRecord.result = "success - 0 new elements"

\* C31: every post-action diff brackets exactly one executed action: when a
\* click or a fill is executed and the page is snapshotted again, the
\* snapshot the diff starts from was captured after the previously executed
\* action (or at the start of the run).
C31_DiffBracketsOneAction ==
    [][ (pc = "execute" /\ page_gen' = page_gen + 1
           /\ iter_failure' # "resnapshot")
          => dom_snapshot_before = page_gen ]_vars

\* C32: an intent whose event is neither click nor fill (such as "done") is
\* kept as the cached intent but executes nothing, appends no record and
\* does not end the run; goal_reached is only set by the goal check at the
\* start of an iteration, when check_goal_completion reports goal_completed.
C32_DoneExecutesNothing ==
    /\ []((pc = "iter_end" /\ outcome = "noop")
             => /\ event \notin {"click", "fill"}
                /\ last_llm_suggestion = Suggestion(event, text)
                /\ Len(action_history) = iter_hist0
                /\ iter_exec = "none"
                /\ ~goal_reached)
    /\ [][ (pc = "execute" /\ event \notin {"click", "fill"})
             => /\ pc' = "iter_end"
                /\ action_history' = action_history
                /\ page_gen' = page_gen
                /\ goal_reached' = goal_reached
                /\ last_llm_suggestion' = last_llm_suggestion ]_vars
    /\ [][ goal_reached' # goal_reached
             => /\ pc = "goal_check"
                /\ goal_reached'
                /\ goal_check'.goal_completed ]_vars

\* C32 witness: the intent done was issued in the second iteration and the
\* iteration ended without a record.
C32_Witness ==
    /\ pc = "iter_end"
    /\ step_count = 2
    /\ event = "done"
    /\ last_llm_suggestion = Suggestion("done", T_Save)
    /\ Len(action_history) = iter_hist0

\* an intent other than click is cached
CachedNonClick ==
    last_llm_suggestion.present /\ last_llm_suggestion.event # "click"

\* the verifier's reasoning keeps a cached fill from being reused
FillOverruled ==
    /\ last_llm_suggestion.event = "fill"
    /\ goal_check.reasoning.isstr
    /\ MentionsClick(goal_check.reasoning)

\* C33: while an intent other than click is cached and the screenshot of an
\* iteration equals the previous one, the iteration reuses the cached intent
\* (unless it is a fill and the reasoning mentions click or select): no
\* action query is issued, the cached intent stays cached, and the run does
\* not end between the goal check and the end of the iteration.
C33_NonClickIntentReusedForever ==
    /\ [][ (pc = "compare" /\ CachedNonClick /\ ~FillOverruled
              /\ previous_screenshot_path = shot)
             => reuse_previous_instruction' ]_vars
    /\ [][ (pc = "decide" /\ CachedNonClick /\ reuse_previous_instruction)
             => /\ pc' = "execute"
                /\ event' = last_llm_suggestion.event
                /\ text' = last_llm_suggestion.text
                /\ ~iter_query'
                /\ api_trace' = api_trace
                /\ last_llm_suggestion' = last_llm_suggestion ]_vars
    /\ [][ (pc \in {"execute", "iter_end"} /\ CachedNonClick
              /\ reuse_previous_instruction)
             => /\ last_llm_suggestion' = last_llm_suggestion
                /\ pc' \in {"iter_end", "loop_head"} ]_vars

(***************************************************************************)
(* Properties of the loop detection over consecutive iterations            *)
(***************************************************************************)
\* the iterations in which a click of the target of iteration i was skipped
SkippedAt(i) ==
    /\ ret[i] = "skipped"
    /\ action_history[i].action = "click"
    /\ action_history[i].result = "loop_detected - skipping"

\* C34: the record appended by a loop-detection skip is a click record for
\* the skipped target, and once the loop detection has skipped a click of T,
\* a click of T decided in the immediately following iteration is skipped
\* too (T is not clicked in it).
C34_SkipsCountAsClicks ==
    /\ Len(ret) = Len(action_history)
    /\ \A i \in 1..Len(ret) :
          ret[i] = "skipped" =>
             /\ action_history[i].action = "click"
             /\ action_history[i].result = "loop_detected - skipping"
             /\ LoopDetected(SubSeq(action_history, 1, i - 1),
                             action_history[i].target)
    /\ \A i \in 2..Len(ret) :
          (/\ SkippedAt(i - 1)
           /\ action_history[i].action = "click"
           /\ action_history[i].target = action_history[i - 1].target)
             => SkippedAt(i)

\* a click was skipped in five iterations in a row, the first two clicks
\* having left the window of the last of them
C34_Witness ==
    /\ Len(ret) = 7
    /\ \A i \in 3..7 : SkippedAt(i) /\ action_history[i].target = T_Save
    /\ ret[1] = "clicked"
    /\ ret[2] = "clicked"

\* the records of actions that acted on the page: a dispatched click or a
\* value written by a fill
ActedOnPage(rec) ==
    rec.result \in {"success - 0 new elements", "success - 1 new elements",
                    "failed - no UI change detected"}

\* C35: every executed action is followed by a goal-completion check before
\* the verdict of the run: when the run ends with StepBudgetExhausted, no
\* action was executed after the last goal check, which is the check at the
\* start of the iteration numbered step_count.
C35_GoalCheckedAfterLastAction ==
    (pc = "final" /\ limit_reported) =>
        \A i \in 1..Len(action_history) :
            ActedOnPage(action_history[i]) =>
                action_history[i].step < step_count

(***************************************************************************)
(* Properties of the text normalization                                    *)
(***************************************************************************)
\* the characters that are neither ASCII letters or digits nor whitespace
NoPunctuation(t) == Filter(t, AsciiAlnum \cup {" ", "\t"})

\* C21: the normalization is idempotent and ignores punctuation;
\* "Blank + Project" and "Blank Project" have the same normal form.
C21_NormalizeIdempotent ==
    /\ Len(ret) = 2 => ret[2] = ret[1]
    /\ Len(ret) >= 1
          => /\ ret[1] = NormalizeTextForMatching(NoPunctuation(arg))
             /\ CleanText(CleanText(arg)) = CleanText(arg)
    /\ (Len(ret) >= 1 /\ arg \in {T_BlankPlusProject, T_BlankProject})
          => ret[1] = <<"b", "l", "a", "n", "k", " ",
                        "p", "r", "o", "j", "e", "c", "t">>

\* C21 witness: "Blank + Project" was normalized twice.
C21_Witness ==
    /\ pc = "norm_twice"
    /\ arg = T_BlankPlusProject
    /\ Len(ret) = 2


(***************************************************************************)
(* Properties of the full-DOM scans                                        *)
(***************************************************************************)
\* element j lies inside element i
RECURSIVE NestedIn(_, _, _)
NestedIn(page, j, i) ==
    /\ page[j].parent # 0
    /\ \/ page[j].parent = i
       \/ NestedIn(page, page[j].parent, i)

\* pairs (i, j): j nested in i, identical normalized text, and one of the
\* two has the shorter raw innerText
TiedPairs(page) ==
    {pr \in (1..Len(page)) \X (1..Len(page)) :
        /\ NestedIn(page, pr[2], pr[1])
        /\ NormalizeTextForMatching(page[pr[1]].innerText)
             = NormalizeTextForMatching(page[pr[2]].innerText)
        /\ Len(page[pr[1]].innerText) # Len(page[pr[2]].innerText)}

Longer(page, pr) ==
    IF Len(page[pr[1]].innerText) > Len(page[pr[2]].innerText)
    THEN pr[1] ELSE pr[2]

Shorter(page, pr) ==
    IF Len(page[pr[1]].innerText) > Len(page[pr[2]].innerText)
    THEN pr[2] ELSE pr[1]

\* C22: of two nested elements with identical normalized text that both
\* match the query, neither scan selects the one with the longer raw
\* innerText, whatever the tags, roles and cursors.
C22_TieBreakPrefersLeastText ==
    pc = "scan_done"
        => \A pr \in TiedPairs(arg.page) :
               /\ Shorter(arg.page, pr) \in ViaTextCandidates(arg.page, arg.query)
                    => ret[1] # Longer(arg.page, pr)
               /\ Shorter(arg.page, pr) \in FallbackCandidates(arg.page, arg.query)
                    => ret[2] # Longer(arg.page, pr)

\* C23: the element chosen by the fallback scan of click_text_anywhere has
\* an innerText whose normalized form contains the normalized query.
C23_ChosenContainsQuery ==
    (pc = "scan_done" /\ ret[2] # 0)
        => Contains(NormalizeTextForMatching(arg.query),
                    NormalizeTextForMatching(arg.page[ret[2]].innerText))


(***************************************************************************)
(* Properties of the reply parsing                                         *)
(***************************************************************************)
\* the value of the object whose text is j
ObjectOf(j) ==
    CASE j = J_Done -> JsonValue("true", "absent", <<>>)
      [] j = J_NotDone -> JsonValue("false", "absent", <<>>)
      [] j = J_Click -> JsonValue("absent", "click", T_Save)

\* C26: a reply that is one JSON object inside a json code fence is parsed to
\* exactly that object by check_goal_completion, by get_next_action and by
\* the action query of main().
C26_FencedObjectParsed ==
    \A j \in JsonObjectTexts :
        (pc = "parse_done" /\ arg = Pre_FenceJson \o j \o Post_Fence)
            => \A k \in 1..3 :
                   /\ ret[k].how = "json"
                   /\ ret[k].value = ObjectOf(j)

\* C26 witness: the fenced action object {"event": "click", "text": "Save"}
\* went through the three parsers.
C26_Witness ==
    /\ pc = "parse_done"
    /\ arg = Pre_FenceJson \o J_Click \o Post_Fence
    /\ ret[3].value.event = "click"
    /\ ret[3].value.text = T_Save

\* the reply holds the goal-check object j with prose before or after it
ObjectInProse(reply, j) ==
    \E pre \in {<<>>, Pre_NotTrue, Pre_Note}, post \in {<<>>, Post_Ok} :
        /\ pre \o post # <<>>
        /\ reply = pre \o j \o post

\* C27: when the goal-check reply holds one JSON object with prose around
\* it, check_goal_completion reports goal_completed exactly as the object
\* says.
C27_ProseAroundObjectKeepsVerdict ==
    \A j \in {J_Done, J_NotDone} :
        (Len(ret) >= 1 /\ ObjectInProse(arg, j))
            => ret[1].value.goal_completed = ObjectOf(j).goal_completed


(***************************************************************************)
(* Properties of click_text_anywhere                                       *)
(***************************************************************************)
Clicks == {i \in 1..Len(ret) : ret[i].result = "clicked"}

LocatorAttempts == {i \in 1..Len(ret) : ret[i].op = "locator"}

MouseAttempts == {i \in 1..Len(ret) : ret[i].op = "mouse"}

StrategyOrder(s) ==
    CASE s = "exact_text" -> 1
      [] s = "button_role" -> 2
      [] s = "link_role" -> 3
      [] s = "partial_text" -> 4

Before(i, j) ==
    \/ ret[i].frame < ret[j].frame
    \/ /\ ret[i].frame = ret[j].frame
       /\ StrategyOrder(ret[i].strategy) < StrategyOrder(ret[j].strategy)

\* C28: the locators are tried frame by frame and, within a frame, in the
\* order exact text, button role, link role, partial text; the mouse click
\* comes only after every locator of every frame failed, frame by frame, at
\* the frame offset plus the element centre; the first click ends the call,
\* so that a call clicks at most once.
C28_LocatorsBeforeMouseOneClick ==
    /\ \A i, j \in LocatorAttempts : i < j => Before(i, j)
    /\ \A i \in LocatorAttempts :
          \A f \in 1..ret[i].frame, s \in 1..4 :
              (f < ret[i].frame \/ s < StrategyOrder(ret[i].strategy))
                  => \E j \in LocatorAttempts :
                        /\ j < i
                        /\ ret[j].frame = f
                        /\ StrategyOrder(ret[j].strategy) = s
    /\ \A m \in MouseAttempts :
          /\ \A f \in 1..arg.frames, s \in 1..4 :
                \E j \in LocatorAttempts :
                    /\ j < m
                    /\ ret[j].frame = f
                    /\ StrategyOrder(ret[j].strategy) = s
                    /\ ret[j].result # "clicked"
          /\ \A f \in 1..(ret[m].frame - 1) :
                \E j \in MouseAttempts :
                    j < m /\ ret[j].frame = f /\ ret[j].result # "clicked"
          /\ ret[m].result = "clicked"
                => ret[m].x \in {Centre, FrameOffset(ret[m].frame) + Centre}
    /\ \A c \in Clicks :
          /\ Len(ret) = c + 1
          /\ ret[c + 1].op = "return"
          /\ ret[c + 1].result = "success"
          /\ pc = "click_returned"
    /\ Cardinality(Clicks) <= 1
    /\ (pc = "click_returned" /\ Clicks = {} /\ Strip(arg.text) # <<>>)
          => /\ Cardinality(LocatorAttempts) = 4 * arg.frames
             /\ Cardinality(MouseAttempts) = arg.frames

\* C28 witness: with two frames, every locator failed in both frames, the
\* fallback found nothing in the first frame and the mouse clicked in the
\* second.
C28_Witness ==
    /\ pc = "click_returned"
    /\ arg.frames = 2
    /\ Len(ret) = 11
    /\ ret[10].op = "mouse"
    /\ ret[10].frame = 2
    /\ ret[10].result = "clicked"
    /\ ret[10].x = FrameOffset(2) + Centre


(***************************************************************************)
(* Properties of BrowserController.find_element                            *)
(***************************************************************************)
StrategyList ==
    <<"get_by_text", "get_by_role_button", "get_by_role_link",
      "get_by_placeholder", "get_by_label", "role_button_has_text",
      "button_has_text", "a_has_text", "aria_label">>

\* C29: find_element tries the strategies in list order and returns the
\* candidate of the earliest strategy that yields a visible element, a
\* raising strategy counting as no candidate; otherwise it returns None,
\* and click and fill then report a failure without acting on the page.
C29_FirstVisibleOrNotFound ==
    /\ \A i \in 1..Len(ret.tried) :
          /\ ret.tried[i].strategy = StrategyList[i]
          /\ i < Len(ret.tried) => ret.tried[i].outcome # "visible"
    /\ pc \in {"find_returned", "find_done"}
          => IF ret.el # None
             THEN /\ ret.el = Len(ret.tried)
                  /\ ret.tried[ret.el].outcome = "visible"
             ELSE /\ Len(ret.tried) = 9
                  /\ \A i \in 1..9 : ret.tried[i].outcome # "visible"
    /\ (pc = "find_done" /\ ret.el = None)
          => /\ ret.result \in {"Element not found", "Input not found"}
             /\ ~ret.touched
    /\ (pc = "find_done" /\ ret.result = "success") => ret.el # None

\* C29 witness: the first strategy raised, the others found nothing visible,
\* and click reported that the element was not found.
C29_Witness ==
    /\ pc = "find_done"
    /\ arg.op = "click"
    /\ ret.el = None
    /\ ret.tried[1].outcome = "raises"
    /\ ret.result = "Element not found"
    /\ ~ret.touched


(***************************************************************************)
(* Properties of the DOM snapshots                                         *)
(***************************************************************************)
\* the entry of the new snapshot at position i is new or changed with
\* respect to the old snapshot
NewOrChanged(old, new, i) ==
    \A j \in 1..Len(old) :
        old[j].fp = new[i].fp
            => \/ old[j].el.visibleText # new[i].el.visibleText
               \/ old[j].el.ariaLabel # new[i].el.ariaLabel
               \/ old[j].el.placeholder # new[i].el.placeholder

RECURSIVE Expected(_, _, _)
Expected(old, new, i) ==
    IF i > Len(new) THEN <<>>
    ELSE IF NewOrChanged(old, new, i)
         THEN <<new[i].el>> \o Expected(old, new, i + 1)
         ELSE Expected(old, new, i + 1)

C25_FingerprintsUnique ==
    pc \in {"snap_captured", "snap_diffed"}
        => /\ Len(ret.after) = Len(arg.after)
           /\ Len(ret.before) = Len(arg.before)
           /\ \A i \in 1..Len(ret.after) : ret.after[i].el = arg.after[i]
           /\ \A i, j \in 1..Len(ret.after) :
                 ret.after[i].fp = ret.after[j].fp => i = j

\* C25 witness: two buttons with the same kind and normalized label were
\* captured into one snapshot.
C25_Witness ==
    /\ pc = "snap_captured"
    /\ arg.after = <<E_Cancel, E_CancelBang>>
    /\ Len(ret.after) = 2
    /\ ret.after[1].fp # ret.after[2].fp


(***************************************************************************)
(* Properties of the RateLimiter                                           *)
(***************************************************************************)
\* the recorded calls that fall in the interval [t, t + time_window)
CallsWithin(t) ==
    {j \in 1..Len(admitted) :
        admitted[j] >= t /\ admitted[j] < t + 2 * time_window}

\* C7: no interval of time_window seconds holds more than max_calls
\* recorded calls.
C7_AtMostMaxCallsPerWindow ==
    \A i \in 1..Len(admitted) :
        Cardinality(CallsWithin(admitted[i])) <= max_calls

\* C8: with max_calls >= 1 a call of wait_if_needed never raises, sleeps at
\* most time_window + 0.5 seconds and appends exactly one timestamp (the
\* time of the call) to call_times.
C8_NeverFailsBoundedWait ==
    [][ max_calls >= 1 =>
          /\ pc' # "rl_raised"
          /\ admitted' # admitted =>
                /\ last_sleep' <= 2 * time_window + 1
                /\ Len(admitted') = Len(admitted) + 1
                /\ \E k \in 0..Len(call_times) :
                      call_times' =
                         Append(SubSeq(call_times, k + 1, Len(call_times)),
                                clock') ]_vars

\* C8 witness: a call that had to sleep returned and was recorded.
C8_Witness ==
    /\ pc = "rl_ready"
    /\ max_calls >= 1
    /\ last_sleep > 0
    /\ Len(admitted) > max_calls
    /\ call_times # <<>>
    /\ call_times[Len(call_times)] = clock

\* C36: call_times holds at most max_calls timestamps, in non-decreasing
\* order, all within the last time_window seconds of the clock reading of
\* the operation that last touched it; get_remaining_calls returns max_calls
\* minus the number of timestamps held, a number in 0..max_calls, and records
\* no call.
C36_WindowWithinLimit ==
    /\ [](/\ Len(call_times) <= max_calls
          /\ \A i \in 1..Len(call_times) - 1 :
                call_times[i] <= call_times[i + 1])
    /\ [][ (call_times' # call_times \/ ret' # ret) =>
              \A i \in 1..Len(call_times') :
                 call_times'[i] >= clock' - 2 * time_window ]_vars
    /\ [][ ret' # ret =>
              /\ ret'[1] = max_calls - Len(call_times')
              /\ ret'[1] \in 0..max_calls
              /\ admitted' = admitted
              /\ \E k \in 0..Len(call_times) :
                    call_times' =
                       SubSeq(call_times, k + 1, Len(call_times)) ]_vars

LabelsOf(dom, action) ==
    IF action = "click"
    THEN {BestLabelForButton(dom.buttons[i]) : i \in 1..Len(dom.buttons)}
    ELSE {BestLabelForInput(dom.inputs[i]) : i \in 1..Len(dom.inputs)}

\* C38: for non-empty doc_steps the returned index is at least
\* min(doc_step_index, len(doc_steps) - 1) and at most len(doc_steps) - 1;
\* for empty doc_steps the result is (None, doc_step_index); a returned
\* action names the label of an element of dom_elements whose similarity to
\* a documented step is at least min_similarity.
C38_IndexInBoundsAndMonotone ==
    pc = "resolve_done" =>
        /\ arg.doc_steps = <<>> =>
              ret = [action |-> NoAction, index |-> arg.doc_step_index]
        /\ arg.doc_steps # <<>> =>
              /\ ret.index >= Smaller(arg.doc_step_index,
                                      Len(arg.doc_steps) - 1)
              /\ ret.index <= Len(arg.doc_steps) - 1
        /\ ret.action # NoAction =>
              /\ ret.action.element_description
                    \in LabelsOf(arg.dom, ret.action.action) \ {<<>>}
              /\ \E k \in 1..Len(arg.doc_steps) :
                    AtLeast(Similarity(arg.doc_steps[k],
                                       ret.action.element_description),
                            arg.min_similarity)

\* C38 witness: nothing matched the step asked for nor the next one; the
\* action matched to the step after that was returned, with the index of the
\* step in between
C38_Witness ==
    /\ pc = "resolve_done"
    /\ Len(arg.doc_steps) = 3
    /\ arg.doc_step_index = 0
    /\ arg.min_similarity = 55
    /\ ret.index = 1
    /\ ret.action.action = "fill"
    /\ \A k \in 1..2 :
          ~AtLeast(Similarity(arg.doc_steps[k],
                              ret.action.element_description), 55)

(***************************************************************************)
(* Properties of fill_script                                               *)
(***************************************************************************)
\* the rendered fillable elements of the page whose label matches
MatchingFields ==
    {i \in 1..Len(arg.page) : FillMatches(arg.page[i], arg.labelText)}

\* C39: when several rendered fillable elements have a matching label, the
\* value is written into the first of them in document order and into no
\* other element.
C39_FillsFirstMatch ==
    (pc = "fill_done" /\ Cardinality(MatchingFields) >= 2) =>
        \A i \in 1..Len(arg.page) :
            ret.page[i].value =
                IF i \in MatchingFields
                   /\ \A j \in MatchingFields : i <= j
                THEN arg.valueToEnter
                ELSE arg.page[i].value

====
